---- MODULE Spec2Model ----
(***************************************************************************)
(* A model of the document-management core: the tamper-proof audit log     *)
(* (app/audit/logger.py), the chunked AES-GCM file codec                   *)
(* (app/auth/secruity.py), the upload pipeline and its encryption stage    *)
(* (app/documents/processing.py) and the emergency wipe                    *)
(* (scripts/emergency_wipe.py).                                            *)
(***************************************************************************)
EXTENDS Integers, Sequences, FiniteSets, TLC

(***************************************************************************)
(* Bounds of the model.                                                    *)
(***************************************************************************)
\* how many append calls are started in one behaviour
MaxAppends == 3

(***************************************************************************)
(* Values of the audit log.                                                *)
(***************************************************************************)
\* the two threads of a worker that may log (MAX_THREADS_PER_WORKER)
Producers == {"p1", "p2"}

\* Python None in a JSON field
Null == "null"

\* '0' * 64
ZeroHash == <<>>

\* end_id = None
NoEnd == -1

\* datetime.utcnow().isoformat(): any clock reading
Timestamps == {"t1", "t2"}

\* the data dict of an entry, with the length of its compact JSON text
SmallData == [text |-> "{\"success\":true}", size |-> 16]

LargeData == [text |-> "{\"error\":\"<str(e)>\",\"filename\":\"a.pdf\"}", size |-> 1200]

DataValues == {SmallData, LargeData}

\* the arguments append is called with: by log_login_attempt, and by
\* log_document_event on a stored and on a failed upload, whose data
\* carries the text of the exception
AppendCalls ==
    {[event |-> "LOGIN_ATTEMPT", user_id |-> Null, data |-> SmallData],
     [event |-> "DOCUMENT_DOCUMENT_UPLOADED", user_id |-> "7",
      data |-> SmallData],
     [event |-> "DOCUMENT_PROCESSING_FAILED", user_id |-> "7",
      data |-> LargeData]}

\* the tail window of _get_last_hash and _get_next_id
TAIL_WINDOW == 1024

\* length of the compact JSON text of an entry whose data is {} ...
EnvelopeLen == 284

\* ... and of the genesis line as json.dump writes it
GenesisLen == 275

\* BLAKE2b over the canonical text of the six hashed fields, taken to be
\* collision free: the digest is the tuple of what was hashed
_calculate_hash(entry) ==
    <<entry.entry_id, entry.timestamp, entry.event, entry.user_id,
      entry.data, entry.previous_hash>>

\* a line of the file: a complete entry ("entry"), a fragment of an entry
\* without its newline ("torn"), or such a fragment followed on the same
\* line by a complete entry ("torn_entry"); e is the entry last written.
\* A line of kind "writing" is the first part of the text of e, the rest
\* of which its writer has still to write.
Line(kind, e) == [kind |-> kind, e |-> e]

\* bytes of a line, the newline included
LineBytes(line) ==
    IF line.kind \in {"torn", "writing"} THEN 1
    ELSE (IF line.kind = "torn_entry" THEN 1 ELSE 0)
         + (IF line.e.entry_id = 0 /\ line.e.event = "LOG_INITIALIZED"
            THEN GenesisLen
            ELSE EnvelopeLen - 2 + line.e.data.size) + 1

RECURSIVE FileSize(_)
FileSize(lines) ==
    IF lines = <<>> THEN 0
    ELSE LineBytes(lines[1]) + FileSize(Tail(lines))

Min(a, b) == IF a <= b THEN a ELSE b

\* the genesis entry of _ensure_log_file: it has no user_id, ip_address or
\* user_agent key, which entry.get reads as None
Genesis(ts) ==
    LET g == [entry_id |-> 0, timestamp |-> ts, event |-> "LOG_INITIALIZED",
              user_id |-> Null, ip_address |-> Null, user_agent |-> Null,
              data |-> [text |-> "{\"version\":\"1.0\"}", size |-> 18],
              previous_hash |-> ZeroHash]
    IN  [entry_id |-> g.entry_id, timestamp |-> g.timestamp,
         event |-> g.event, user_id |-> g.user_id,
         ip_address |-> g.ip_address, user_agent |-> g.user_agent,
         data |-> g.data, previous_hash |-> g.previous_hash,
         hash |-> _calculate_hash(g)]

(***************************************************************************)
(* Values of the file codec.                                               *)
(***************************************************************************)
\* chunk_size, the parameter of encrypt_file and decrypt_file
ChunkSize == 2

\* how many times the encryption stage of an upload is entered in one
\* behaviour
MaxUploads == 3

\* the longest input file: several chunks and a partial last one
MaxPlainLen == 2 * ChunkSize + 1

\* os.urandom(12) and infile.read(12)
NONCE_LEN == 12

\* the GCM tag AESGCM.encrypt puts after the ciphertext of a chunk
TAG_LEN == 16

PlainBytes == {"a", "b"}

PlainFiles == UNION {[1..n -> PlainBytes] : n \in 0..MaxPlainLen}

\* 256-bit keys
Keys == {1, 2}

NoKey == 0

\* 96-bit nonces
Nonces == {"n1", "n2"}

\* f.read(n) at the head of what is left of a file, and what is left then
Take(s, n) == SubSeq(s, 1, Min(n, Len(s)))

Drop(s, n) == SubSeq(s, Min(n, Len(s)) + 1, Len(s))

\* A byte of an encrypted file.  A nonce byte is the i-th byte of nonce n.
\* A ciphertext byte is the plaintext byte p under the i-th keystream byte
\* of (k, n).  A tag byte is the i-th byte of the GCM tag of the chunk p
\* under (k, n).  GCM takes no chunk number: the same (k, n) seals every
\* chunk the same way.
NonceBytes(n) ==
    [i \in 1..NONCE_LEN |-> [t |-> "nonce", k |-> NoKey, n |-> n, i |-> i,
                             p |-> <<>>]]

\* AESGCM(key).encrypt(nonce, chunk, None): ciphertext, then the tag
AESGCM_encrypt(key, nonce, chunk) ==
    [i \in 1..Len(chunk) |-> [t |-> "ct", k |-> key, n |-> nonce, i |-> i,
                              p |-> <<chunk[i]>>]]
    \o [i \in 1..TAG_LEN |-> [t |-> "tag", k |-> key, n |-> nonce, i |-> i,
                              p |-> chunk]]

\* AESGCM(key).decrypt(nonce, data, None): the plaintext when data is what
\* encrypt gives for it under (key, nonce), InvalidTag otherwise
AESGCM_decrypt(key, nonce, data) ==
    LET m == Len(data) - TAG_LEN
        pt == [i \in 1..m |-> IF data[i].p = <<>> THEN "a" ELSE data[i].p[1]]
    IN  IF m >= 0 /\ data = AESGCM_encrypt(key, nonce, pt)
        THEN [ok |-> TRUE, plaintext |-> pt]
        ELSE [ok |-> FALSE, plaintext |-> <<>>]

\* encrypt_file, lines 75-82: the loop over the chunks of the input; out is
\* the output file so far, sealed the (key, nonce) pairs used so far
RECURSIVE EncryptLoop(_, _, _, _, _, _)
EncryptLoop(key, nonce, infile, chunk_size, out, sealed) ==
    LET chunk == Take(infile, chunk_size)
    IN  IF chunk = <<>> THEN [out |-> out, sealed |-> sealed, nonce |-> nonce]
        ELSE EncryptLoop(key, nonce, Drop(infile, chunk_size), chunk_size,
                         out \o AESGCM_encrypt(key, nonce, chunk),
                         Append(sealed, [key |-> key, nonce |-> nonce]))

\* encrypt_file with the nonce os.urandom gave it
encrypt_file(key, nonce, infile, chunk_size) ==
    EncryptLoop(key, nonce, infile, chunk_size, NonceBytes(nonce), <<>>)

\* the nonce decrypt_file reads back: the first NONCE_LEN bytes
ReadNonce(data) ==
    IF \E n \in Nonces : Take(data, NONCE_LEN) = NonceBytes(n)
    THEN (CHOOSE n \in Nonces : Take(data, NONCE_LEN) = NonceBytes(n))
    ELSE "garbled"

\* decrypt_file, lines 94-102: the loop over the records of the input; out
\* is the output file so far, opens counts the calls of AESGCM.decrypt
RECURSIVE DecryptLoop(_, _, _, _, _, _)
DecryptLoop(key, nonce, infile, chunk_size, out, opens) ==
    LET chunk == Take(infile, chunk_size + TAG_LEN)
        opened == AESGCM_decrypt(key, nonce, chunk)
    IN  IF chunk = <<>>
        THEN [status |-> "returned", out |-> out, opens |-> opens]
        ELSE IF ~opened.ok
        THEN [status |-> "raised", out |-> out, opens |-> opens + 1]
        ELSE DecryptLoop(key, nonce, Drop(infile, chunk_size + TAG_LEN),
                         chunk_size, out \o opened.plaintext, opens + 1)

\* decrypt_file reading records of chunk_size bytes, the tag forgotten
RECURSIVE DecryptLoop_NoTagLen(_, _, _, _, _, _)
DecryptLoop_NoTagLen(key, nonce, infile, chunk_size, out, opens) ==
    LET chunk == Take(infile, chunk_size)
        opened == AESGCM_decrypt(key, nonce, chunk)
    IN  IF chunk = <<>>
        THEN [status |-> "returned", out |-> out, opens |-> opens]
        ELSE IF ~opened.ok
        THEN [status |-> "raised", out |-> out, opens |-> opens + 1]
        ELSE DecryptLoop_NoTagLen(key, nonce, Drop(infile, chunk_size),
                                  chunk_size, out \o opened.plaintext,
                                  opens + 1)

decrypt_file_NoTagLen(key, infile, chunk_size) ==
    DecryptLoop_NoTagLen(key, ReadNonce(infile), Drop(infile, NONCE_LEN),
                         chunk_size, <<>>, 0)

\* decrypt_file catching InvalidTag and going on with the next record
RECURSIVE DecryptLoop_KeepGoing(_, _, _, _, _, _)
DecryptLoop_KeepGoing(key, nonce, infile, chunk_size, out, opens) ==
    LET chunk == Take(infile, chunk_size + TAG_LEN)
        opened == AESGCM_decrypt(key, nonce, chunk)
    IN  IF chunk = <<>>
        THEN [status |-> "returned", out |-> out, opens |-> opens]
        ELSE DecryptLoop_KeepGoing(key, nonce,
                                   Drop(infile, chunk_size + TAG_LEN),
                                   chunk_size, out \o opened.plaintext,
                                   opens + 1)

decrypt_file_KeepGoing(key, infile, chunk_size) ==
    DecryptLoop_KeepGoing(key, ReadNonce(infile), Drop(infile, NONCE_LEN),
                          chunk_size, <<>>, 0)

decrypt_file(key, infile, chunk_size) ==
    DecryptLoop(key, ReadNonce(infile), Drop(infile, NONCE_LEN), chunk_size,
                <<>>, 0)

VARIABLES
    log,      \* the lines of the audit log file
    pc,       \* per producer: where it is in append
    prev,     \* per producer: previous_hash as read by _get_last_hash
    nid,      \* per producer: entry_id as read by _get_next_id
    calls,    \* append calls started
    tamper,   \* what was done to the file behind the program's back
    verified, \* verify_integrity has run on the present content
    vargs,    \* its arguments
    issues,   \* its result
    verr,     \* the exception that left it, Null if it returned
    plain,    \* the file given to encrypt_file
    key,      \* the key of the FileEncryption object
    blob,     \* the encrypted file
    sealed,   \* the (key, nonce) pairs encrypt_file sealed chunks under
    flipped,  \* the place of the byte of blob that was altered, 0 if none
    cstate,   \* how far the codec has got with the file
    result,   \* what decrypt_file did: its outcome, its output, its opens
    rearranged, \* what was done to the records of blob as wholes
    file_key, \* users.file_key of the uploading user, as committed
    upc,      \* per upload: where it is in _encrypt_document
    ukey,     \* per upload: user.file_key of the User object it loaded
    keygens,  \* calls of generate_file_key so far
    enc,      \* per upload: nonce, encrypted image file, encrypted text
    useals,   \* per upload: the (stream, key, nonce) of every chunk sealed
    started,  \* uploads that have entered _encrypt_document
    ppc,            \* where process_upload is
    invocations,    \* process_upload calls started
    temp_dir,       \* the files in TEMP_FOLDER
    patient_folder, \* the files in the patient's folder
    documents,      \* ids of the committed PatientDocument rows
    temp_path,      \* process_upload's local of that name
    processed_path, \* process_upload's local of that name
    mime_type,      \* process_upload's local of that name
    ocr_result,     \* process_upload's local of that name
    encrypted_data, \* process_upload's local of that name
    document_id,    \* process_upload's local of that name
    error,          \* str(e) of the exception on its way, Null if none
    appends,        \* the log_document_event calls of this invocation
    outcome,        \* how process_upload ends: a result, or an exception
    stages,         \* the stages this invocation has completed, in order
    ocr_running,    \* the invocations whose run_tesseract thread is running
    rlimits,        \* the resource limits of the worker process
    contents,       \* the bytes of the encrypted image files, by path
    doc_rows,       \* the committed PatientDocument rows
    spc,         \* where crypto_shred is
    key_files,   \* the *.key files of /etc/psyward/keys
    db_keys,     \* the users whose file_key is in the database
    backup_keys, \* the <backup_name>.key files of the backup folder
    volume,      \* the encrypted volume: mounted or not, its LUKS header
    exists,      \* the places of WIPE_PATHS that exist
    attempted,   \* the steps and the key files crypto_shred has come to
    wipe_i,      \* the place of the loop over WIPE_PATHS
    trigger,     \* what last asked for the wipe, and whether it was let in
    backup_archives, \* the <backup_name>.enc files of the backup folder
    usb_backup,      \* the files of /mnt/usb_backup
    usb_mounted      \* whether /mnt/usb_backup exists

ledgerVars ==
    <<log, pc, prev, nid, calls, tamper, verified, vargs, issues, verr>>

cipherVars ==
    <<plain, key, blob, sealed, flipped, cstate, result, rearranged>>

uploadVars == <<file_key, upc, ukey, keygens, enc, useals, started>>

pipelineVars ==
    <<ppc, invocations, temp_dir, patient_folder, documents, temp_path,
      processed_path, mime_type, ocr_result, encrypted_data, document_id,
      error, appends, outcome, stages, ocr_running, rlimits, contents,
      doc_rows>>

shredVars ==
    <<spc, key_files, db_keys, backup_keys, volume, exists, attempted, wipe_i,
      trigger>>

backupVars == <<backup_archives, usb_backup, usb_mounted>>

vars ==
    <<ledgerVars, cipherVars, uploadVars, pipelineVars, shredVars, backupVars>>

\* the variables the audit log leaves alone
notLedgerVars ==
    <<cipherVars, uploadVars, pipelineVars, shredVars, backupVars>>

\* the variables the file codec leaves alone
notCipherVars ==
    <<ledgerVars, uploadVars, pipelineVars, shredVars, backupVars>>

\* the variables the encryption stage leaves alone
notUploadVars ==
    <<ledgerVars, cipherVars, pipelineVars, shredVars, backupVars>>

\* the variables process_upload leaves alone: all but its own and the
\* content of the audit log
notPipelineVars ==
    <<pc, prev, nid, calls, tamper, verified, vargs, issues, verr, cipherVars,
      uploadVars, shredVars, backupVars>>

\* the variables the emergency wipe leaves alone; /mnt/backup and
\* /mnt/usb_backup are not among its WIPE_PATHS
notShredVars ==
    <<ledgerVars, cipherVars, uploadVars, pipelineVars, backupVars>>

(***************************************************************************)
(* TamperProofLog                                                          *)
(***************************************************************************)
InFlight(p) == pc[p] \in {"got_hash", "got_id", "writing"}

\* lines[-1] of the last TAIL_WINDOW bytes parses as JSON: the last line is
\* a complete entry and lies wholly inside the window
TailParses(lines) ==
    /\ lines # <<>>
    /\ lines[Len(lines)].kind = "entry"
    /\ LineBytes(lines[Len(lines)]) <= Min(FileSize(lines), TAIL_WINDOW)

_get_last_hash(lines) ==
    IF FileSize(lines) = 0 THEN ZeroHash
    ELSE IF TailParses(lines) THEN lines[Len(lines)].e.hash
    ELSE ZeroHash

_get_next_id(lines) ==
    IF FileSize(lines) = 0 THEN 1
    ELSE IF TailParses(lines) THEN lines[Len(lines)].e.entry_id + 1
    ELSE 1

\* the entry append builds from its arguments and the two reads
NewEntry(id, ts, event, user_id, data, previous_hash) ==
    LET e == [entry_id |-> id, timestamp |-> ts, event |-> event,
              user_id |-> user_id, ip_address |-> Null, user_agent |-> Null,
              data |-> data, previous_hash |-> previous_hash]
    IN  [entry_id |-> e.entry_id, timestamp |-> e.timestamp,
         event |-> e.event, user_id |-> e.user_id,
         ip_address |-> e.ip_address, user_agent |-> e.user_agent,
         data |-> e.data, previous_hash |-> e.previous_hash,
         hash |-> _calculate_hash(e)]

\* the start of the text of e, up to somewhere in its second field: what
\* is left of e when the write stops there
Fragment(e) ==
    [entry_id |-> e.entry_id, timestamp |-> Null, event |-> Null,
     user_id |-> Null, ip_address |-> Null, user_agent |-> Null,
     data |-> SmallData, previous_hash |-> ZeroHash, hash |-> ZeroHash]

\* the file opened with 'w': the write replaces what was there
WriteLine_Truncating(lines, e) == <<Line("entry", e)>>

\* what open(log_path, 'a') followed by a whole write leaves in the file:
\* the text lands after whatever the file ends with
WriteLine(lines, e) ==
    IF lines # <<>> /\ lines[Len(lines)].kind = "torn"
    THEN [lines EXCEPT ![Len(lines)] = Line("torn_entry", e)]
    ELSE Append(lines, Line("entry", e))

\* ... and what a write that fails part-way leaves: a piece of the text
\* of e with no newline after it, after whatever the file ends with
WritePartial(lines, e) ==
    IF lines # <<>> /\ lines[Len(lines)].kind = "torn"
    THEN lines
    ELSE Append(lines, Line("torn", Fragment(e)))

LedgerInit ==
    /\ log = <<Line("entry", Genesis("t0"))>>
    /\ pc = [p \in Producers |-> "idle"]
    /\ prev = [p \in Producers |-> ZeroHash]
    /\ nid = [p \in Producers |-> 0]
    /\ calls = 0
    /\ tamper = [kind |-> "none", pos |-> 0, pos2 |-> 0]
    /\ verified = FALSE
    /\ vargs = <<0, NoEnd>>
    /\ issues = <<>>
    /\ verr = Null

\* append, line 47: previous_hash = self._get_last_hash()
AppendGetLastHash(p) ==
    /\ ~InFlight(p)
    /\ calls < MaxAppends
    /\ tamper.kind = "none"
    /\ prev' = [prev EXCEPT ![p] = _get_last_hash(log)]
    /\ pc' = [pc EXCEPT ![p] = "got_hash"]
    /\ calls' = calls + 1
    /\ UNCHANGED <<log, nid, tamper, verified, vargs, issues, verr>>
    /\ UNCHANGED notLedgerVars

\* append, line 51: 'entry_id': self._get_next_id()
AppendGetNextId(p) ==
    /\ pc[p] = "got_hash"
    /\ nid' = [nid EXCEPT ![p] = _get_next_id(log)]
    /\ pc' = [pc EXCEPT ![p] = "got_id"]
    /\ UNCHANGED <<log, prev, calls, tamper, verified, vargs, issues, verr>>
    /\ UNCHANGED notLedgerVars

\* append, lines 52-69: the entry is built, hashed and written; the hash
\* is returned
AppendWrite(p) ==
    /\ pc[p] = "got_id"
    /\ \E ts \in Timestamps, c \in AppendCalls :
          log' = WriteLine(log, NewEntry(nid[p], ts, c.event, c.user_id,
                                         c.data, prev[p]))
    /\ pc' = [pc EXCEPT ![p] = "returned"]
    /\ nid' = [nid EXCEPT ![p] = 0]
    /\ prev' = [prev EXCEPT ![p] = ZeroHash]
    /\ verified' = FALSE
    /\ vargs' = <<0, NoEnd>>
    /\ issues' = <<>>
    /\ verr' = Null
    /\ UNCHANGED <<calls, tamper>>
    /\ UNCHANGED notLedgerVars

\* append, lines 65-67, when open or the write raises before any byte
\* reaches the file: the exception leaves append
AppendWriteFails(p) ==
    /\ pc[p] = "got_id"
    /\ pc' = [pc EXCEPT ![p] = "raised"]
    /\ nid' = [nid EXCEPT ![p] = 0]
    /\ prev' = [prev EXCEPT ![p] = ZeroHash]
    /\ UNCHANGED <<log, calls, tamper, verified, vargs, issues, verr>>
    /\ UNCHANGED notLedgerVars

\* append, lines 65-67, when the write raises after part of the text has
\* reached the file (the device fills up): nothing takes the part back
AppendWriteTorn(p) ==
    /\ pc[p] = "got_id"
    /\ \E ts \in Timestamps, c \in AppendCalls :
          log' = WritePartial(log, NewEntry(nid[p], ts, c.event, c.user_id,
                                            c.data, prev[p]))
    /\ pc' = [pc EXCEPT ![p] = "raised"]
    /\ nid' = [nid EXCEPT ![p] = 0]
    /\ prev' = [prev EXCEPT ![p] = ZeroHash]
    /\ verified' = FALSE
    /\ vargs' = <<0, NoEnd>>
    /\ issues' = <<>>
    /\ verr' = Null
    /\ UNCHANGED <<calls, tamper>>
    /\ UNCHANGED notLedgerVars

\* append, lines 65-67, seen from another thread: the text of the entry
\* reaches the file in more than one write, the buffer of the file object
\* being flushed when it is full and when the file is closed, and nothing
\* keeps a reader out between the writes.  The first part is in the file
AppendWriteBegin(p) ==
    /\ pc[p] = "got_id"
    /\ \A n \in 1..Len(log) : log[n].kind = "entry"
    /\ \E ts \in Timestamps, c \in AppendCalls :
          log' = Append(log, Line("writing",
                                  NewEntry(nid[p], ts, c.event, c.user_id,
                                           c.data, prev[p])))
    /\ pc' = [pc EXCEPT ![p] = "writing"]
    /\ verified' = FALSE
    /\ vargs' = <<0, NoEnd>>
    /\ issues' = <<>>
    /\ verr' = Null
    /\ UNCHANGED <<prev, nid, calls, tamper>>
    /\ UNCHANGED notLedgerVars

\* ... and the rest of the text with the newline is: the line is complete
\* and append returns
AppendWriteEnd(p) ==
    /\ pc[p] = "writing"
    /\ log # <<>>
    /\ log[Len(log)].kind = "writing"
    /\ log[Len(log)].e.entry_id = nid[p]
    /\ log[Len(log)].e.previous_hash = prev[p]
    /\ log' = [log EXCEPT ![Len(log)].kind = "entry"]
    /\ pc' = [pc EXCEPT ![p] = "returned"]
    /\ nid' = [nid EXCEPT ![p] = 0]
    /\ prev' = [prev EXCEPT ![p] = ZeroHash]
    /\ verified' = FALSE
    /\ vargs' = <<0, NoEnd>>
    /\ issues' = <<>>
    /\ verr' = Null
    /\ UNCHANGED <<calls, tamper>>
    /\ UNCHANGED notLedgerVars

\* verify_integrity, lines 141-179: the loop over the lines from line n on
RECURSIVE VerifyFrom(_, _, _, _, _, _)
VerifyFrom(lines, n, previous_hash, acc, start_id, end_id) ==
    IF n > Len(lines) THEN acc
    ELSE IF lines[n].kind = "not_object"
    THEN \* entry['entry_id'] on a list or a number: TypeError, not caught
         Append(acc, [line |-> n, issue |-> "exception",
                      type |-> "TypeError"])
    ELSE IF lines[n].kind = "no_hash"
    THEN \* the range checks pass on entry_id; entry['previous_hash']:
         \* KeyError, not caught
         IF lines[n].e.entry_id < start_id
         THEN VerifyFrom(lines, n + 1, previous_hash, acc, start_id, end_id)
         ELSE IF end_id # NoEnd /\ end_id # 0 /\ lines[n].e.entry_id > end_id
         THEN acc
         ELSE Append(acc, [line |-> n, issue |-> "exception",
                           type |-> "KeyError"])
    ELSE IF lines[n].kind # "entry"
    THEN \* json.JSONDecodeError
         VerifyFrom(lines, n + 1, previous_hash,
                    Append(acc, [line |-> n, issue |-> "invalid_json"]),
                    start_id, end_id)
    ELSE LET entry == lines[n].e
             chain == IF entry.previous_hash # previous_hash
                      THEN <<[entry_id |-> entry.entry_id,
                              issue |-> "broken_chain",
                              expected_previous |-> previous_hash,
                              actual_previous |-> entry.previous_hash]>>
                      ELSE <<>>
             calculated_hash == _calculate_hash(entry)
             own == IF calculated_hash # entry.hash
                    THEN <<[entry_id |-> entry.entry_id,
                            issue |-> "invalid_hash",
                            expected |-> calculated_hash,
                            actual |-> entry.hash]>>
                    ELSE <<>>
         IN  IF entry.entry_id < start_id
             THEN VerifyFrom(lines, n + 1, previous_hash, acc,
                             start_id, end_id)
             ELSE IF end_id # NoEnd /\ end_id # 0 /\ entry.entry_id > end_id
             THEN acc
             ELSE VerifyFrom(lines, n + 1, entry.hash, acc \o chain \o own,
                             start_id, end_id)

\* what the loop leaves: the issues, the last of them the exception that
\* ended it if one did
verify_integrity(lines, start_id, end_id) ==
    VerifyFrom(lines, 1, ZeroHash, <<>>, start_id, end_id)

Raised(found) == found # <<>> /\ found[Len(found)].issue = "exception"

\* verify_integrity, lines 146-173: the lines, from line n on, whose entry
\* gets past the two range checks of lines 149-152 and has its
\* previous_hash and its hash checked
RECURSIVE ExaminedFrom(_, _, _, _)
ExaminedFrom(lines, n, start_id, end_id) ==
    IF n > Len(lines) THEN {}
    ELSE IF lines[n].kind # "entry"
    THEN ExaminedFrom(lines, n + 1, start_id, end_id)
    ELSE IF lines[n].e.entry_id < start_id
    THEN ExaminedFrom(lines, n + 1, start_id, end_id)
    ELSE IF end_id # NoEnd /\ end_id # 0 /\ lines[n].e.entry_id > end_id
    THEN {}
    ELSE {n} \cup ExaminedFrom(lines, n + 1, start_id, end_id)

\* the entry_id of the last complete entry of the file, 0 if there is none
RECURSIVE LastId(_)
LastId(lines) ==
    IF lines = <<>> THEN 0
    ELSE IF lines[Len(lines)].kind = "entry"
    THEN lines[Len(lines)].e.entry_id
    ELSE LastId(SubSeq(lines, 1, Len(lines) - 1))

\* a call of verify_integrity(0) or verify_integrity(0, last_id)
VerifyIntegrity ==
    /\ ~verified
    /\ \E end_id \in {NoEnd, LastId(log)} :
          /\ vargs' = <<0, end_id>>
          /\ LET found == verify_integrity(log, 0, end_id)
             IN  IF Raised(found)
                 THEN issues' = <<>> /\ verr' = found[Len(found)].type
                 ELSE issues' = found /\ verr' = Null
    /\ verified' = TRUE
    /\ UNCHANGED <<log, pc, prev, nid, calls, tamper>>
    /\ UNCHANGED notLedgerVars

\* a call of verify_integrity(start_id, end_id) with
\* 0 <= start_id <= end_id <= last id
VerifyRange ==
    /\ ~verified
    /\ \E start_id \in 0..LastId(log) :
          \E end_id \in start_id..LastId(log) :
             /\ vargs' = <<start_id, end_id>>
             /\ LET found == verify_integrity(log, start_id, end_id)
                IN  IF Raised(found)
                    THEN issues' = <<>> /\ verr' = found[Len(found)].type
                    ELSE issues' = found /\ verr' = Null
    /\ verified' = TRUE
    /\ UNCHANGED <<log, pc, prev, nid, calls, tamper>>
    /\ UNCHANGED notLedgerVars

(***************************************************************************)
(* What someone with access to the file can do to it.                      *)
(***************************************************************************)
Quiet == \A p \in Producers : ~InFlight(p)

RemoveAt(lines, i) ==
    SubSeq(lines, 1, i - 1) \o SubSeq(lines, i + 1, Len(lines))

\* the data of the entry on line i is changed, its hash left as it is
TamperData(i, d) ==
    /\ Quiet /\ tamper.kind = "none"
    /\ i \in 1..Len(log) /\ log[i].kind = "entry"
    /\ d # log[i].e.data
    /\ log' = [log EXCEPT ![i].e.data = d]
    /\ tamper' = [kind |-> "data", pos |-> i, pos2 |-> 0]
    /\ verified' = FALSE /\ vargs' = <<0, NoEnd>> /\ issues' = <<>>
    /\ verr' = Null
    /\ UNCHANGED <<pc, prev, nid, calls>>
    /\ UNCHANGED notLedgerVars

\* the entry on line i is removed from the file
DeleteEntry(i) ==
    /\ Quiet /\ tamper.kind = "none"
    /\ i \in 1..Len(log) /\ log[i].kind = "entry"
    /\ log' = RemoveAt(log, i)
    /\ tamper' = [kind |-> "delete", pos |-> i, pos2 |-> 0]
    /\ verified' = FALSE /\ vargs' = <<0, NoEnd>> /\ issues' = <<>>
    /\ verr' = Null
    /\ UNCHANGED <<pc, prev, nid, calls>>
    /\ UNCHANGED notLedgerVars

\* the entries on lines i and j change places
SwapEntries(i, j) ==
    /\ Quiet /\ tamper.kind = "none"
    /\ i \in 1..Len(log) /\ j \in 1..Len(log) /\ i < j
    /\ log[i].kind = "entry" /\ log[j].kind = "entry"
    /\ log[i] # log[j]
    /\ log' = [log EXCEPT ![i] = log[j], ![j] = log[i]]
    /\ tamper' = [kind |-> "swap", pos |-> i, pos2 |-> j]
    /\ verified' = FALSE /\ vargs' = <<0, NoEnd>> /\ issues' = <<>>
    /\ verr' = Null
    /\ UNCHANGED <<pc, prev, nid, calls>>
    /\ UNCHANGED notLedgerVars

\* the line i is replaced by text that is JSON but no entry: a list or a
\* number ("not_object"), or an object with an entry_id and no
\* previous_hash or hash ("no_hash")
CorruptLine(i, kind) ==
    /\ Quiet /\ tamper.kind = "none"
    /\ i \in 1..Len(log) /\ log[i].kind = "entry"
    /\ kind \in {"not_object", "no_hash"}
    /\ log' = [log EXCEPT ![i].kind = kind]
    /\ tamper' = [kind |-> kind, pos |-> i, pos2 |-> 0]
    /\ verified' = FALSE /\ vargs' = <<0, NoEnd>> /\ issues' = <<>>
    /\ verr' = Null
    /\ UNCHANGED <<pc, prev, nid, calls>>
    /\ UNCHANGED notLedgerVars

\* the fields of a persisted entry other than data
EntryFields ==
    {"entry_id", "timestamp", "event", "user_id", "ip_address", "user_agent",
     "previous_hash", "hash"}

\* another value for a field
Altered(field, value) ==
    IF field = "entry_id" THEN value + 10
    ELSE IF field \in {"previous_hash", "hash"} THEN <<"altered">>
    ELSE IF value = "altered" THEN "altered again" ELSE "altered"

\* one field of the entry on line i, an entry written by append, is
\* changed, the hash left as it is (unless the hash is the field)
TamperField(i, field) ==
    /\ Quiet /\ tamper.kind = "none"
    /\ i \in 2..Len(log) /\ log[i].kind = "entry"
    /\ field \in EntryFields
    /\ log' = [log EXCEPT ![i].e[field] = Altered(field, @)]
    /\ tamper' = [kind |-> field, pos |-> i, pos2 |-> 0]
    /\ verified' = FALSE /\ vargs' = <<0, NoEnd>> /\ issues' = <<>>
    /\ verr' = Null
    /\ UNCHANGED <<pc, prev, nid, calls>>
    /\ UNCHANGED notLedgerVars

\* the lines after line k are removed from the file; pos2 is the number
\* of lines the file had
TruncateTail(k) ==
    /\ Quiet /\ tamper.kind = "none"
    /\ k \in 1..(Len(log) - 1)
    /\ \A n \in 1..Len(log) : log[n].kind = "entry"
    /\ log' = SubSeq(log, 1, k)
    /\ tamper' = [kind |-> "truncate", pos |-> k, pos2 |-> Len(log)]
    /\ verified' = FALSE /\ vargs' = <<0, NoEnd>> /\ issues' = <<>>
    /\ verr' = Null
    /\ UNCHANGED <<pc, prev, nid, calls>>
    /\ UNCHANGED notLedgerVars

\* the longest file the bounds allow, the genesis line included
MaxLines == MaxAppends + 1

LedgerNext ==
    \/ \E p \in Producers : AppendGetLastHash(p)
    \/ \E p \in Producers : AppendGetNextId(p)
    \/ \E p \in Producers : AppendWrite(p)
    \/ \E p \in Producers : AppendWriteFails(p)
    \/ \E p \in Producers : AppendWriteTorn(p)
    \/ VerifyIntegrity
    \/ \E i \in 1..MaxLines, d \in DataValues : TamperData(i, d)
    \/ \E i \in 1..MaxLines : DeleteEntry(i)
    \/ \E i \in 1..MaxLines, j \in 1..MaxLines : SwapEntries(i, j)
    \/ \E i \in 1..MaxLines, kind \in {"not_object", "no_hash"} :
          CorruptLine(i, kind)

\* the log with its readers: appends whose write is seen in two parts,
\* verify_integrity over a range, and changes to the file that leave the
\* JSON of every line whole
AuditNext ==
    \/ \E p \in Producers : AppendGetLastHash(p)
    \/ \E p \in Producers : AppendGetNextId(p)
    \/ \E p \in Producers : AppendWrite(p)
    \/ \E p \in Producers : AppendWriteBegin(p)
    \/ \E p \in Producers : AppendWriteEnd(p)
    \/ VerifyIntegrity
    \/ VerifyRange
    \/ \E i \in 1..MaxLines, field \in EntryFields : TamperField(i, field)
    \/ \E k \in 1..MaxLines : TruncateTail(k)

(***************************************************************************)
(* FileEncryption                                                          *)
(***************************************************************************)
NoResult == [status |-> "none", out |-> <<>>, opens |-> 0]

\* no file is being encrypted
CipherIdle ==
    /\ plain = <<>> /\ key = NoKey /\ blob = <<>> /\ sealed = <<>>
    /\ flipped = 0 /\ cstate = "idle" /\ result = NoResult
    /\ rearranged = "none"

\* a FileEncryption object and a file to encrypt
CipherInit ==
    /\ plain \in PlainFiles
    /\ key \in Keys
    /\ blob = <<>> /\ sealed = <<>>
    /\ flipped = 0 /\ cstate = "input" /\ result = NoResult
    /\ rearranged = "none"

\* encrypt_file(file_path, output_path, chunk_size)
EncryptFile ==
    /\ cstate = "input"
    /\ \E nonce \in Nonces :
          LET r == encrypt_file(key, nonce, plain, ChunkSize)
          IN  blob' = r.out /\ sealed' = r.sealed
    /\ cstate' = "encrypted"
    /\ UNCHANGED <<plain, key, flipped, result, rearranged>>
    /\ UNCHANGED notCipherVars

\* a byte with another value than b
Flip(b) ==
    IF b.t = "ct"
    THEN [b EXCEPT !.p = <<IF b.p[1] = "a" THEN "b" ELSE "a">>]
    ELSE [b EXCEPT !.i = 0 - b.i]

\* one byte of the encrypted file is altered on the storage medium
FlipByte(pos) ==
    /\ cstate = "encrypted" /\ flipped = 0
    /\ pos \in 1..Len(blob)
    /\ blob' = [blob EXCEPT ![pos] = Flip(blob[pos])]
    /\ flipped' = pos
    /\ UNCHANGED <<plain, key, sealed, cstate, result, rearranged>>
    /\ UNCHANGED notCipherVars

\* decrypt_file(file_path, output_path, chunk_size), same key and
\* chunk_size
DecryptFile ==
    /\ cstate = "encrypted"
    /\ result' = decrypt_file(key, blob, ChunkSize)
    /\ cstate' = "decrypted"
    /\ UNCHANGED <<plain, key, blob, sealed, flipped, rearranged>>
    /\ UNCHANGED notCipherVars

\* the records of an encrypted file after its nonce, as decrypt_file
\* reads them: chunk_size + TAG_LEN bytes each, the last one maybe shorter
RECURSIVE Records(_, _)
Records(body, chunk_size) ==
    IF body = <<>> THEN <<>>
    ELSE <<Take(body, chunk_size + TAG_LEN)>>
         \o Records(Drop(body, chunk_size + TAG_LEN), chunk_size)

RECURSIVE Concat(_)
Concat(seqs) == IF seqs = <<>> THEN <<>> ELSE seqs[1] \o Concat(Tail(seqs))

\* the records of the encrypted file with records i and j in each other's
\* place, with record i twice, or without record i
Rearranged(recs, how, i, j) ==
    IF how = "swap" THEN [recs EXCEPT ![i] = recs[j], ![j] = recs[i]]
    ELSE IF how = "duplicate"
    THEN SubSeq(recs, 1, i) \o SubSeq(recs, i, Len(recs))
    ELSE SubSeq(recs, 1, i - 1) \o SubSeq(recs, i + 1, Len(recs))

\* the encrypted file is changed on the storage medium, whole records
\* being moved, copied or removed and no byte of a record altered
RearrangeRecords(how, i, j) ==
    /\ cstate = "encrypted" /\ flipped = 0 /\ rearranged = "none"
    /\ LET recs == Records(Drop(blob, NONCE_LEN), ChunkSize)
       IN  /\ i \in 1..Len(recs) /\ j \in 1..Len(recs)
           /\ how = "swap" => i < j
           /\ how # "swap" => i = j
           /\ blob' = Take(blob, NONCE_LEN)
                         \o Concat(Rearranged(recs, how, i, j))
    /\ blob' # blob
    /\ rearranged' = how
    /\ UNCHANGED <<plain, key, sealed, flipped, cstate, result>>
    /\ UNCHANGED notCipherVars

\* the most records the bounds allow
MaxRecords == (MaxPlainLen + ChunkSize - 1) \div ChunkSize

\* the file codec and a storage medium that rearranges records
RecordNext ==
    \/ EncryptFile
    \/ \E how \in {"swap", "duplicate", "drop"}, i \in 1..MaxRecords,
          j \in 1..MaxRecords : RearrangeRecords(how, i, j)
    \/ DecryptFile

\* the longest encrypted file the bounds allow
MaxBlobLen == NONCE_LEN + MaxPlainLen + 3 * TAG_LEN

CipherNext ==
    \/ EncryptFile
    \/ \E pos \in 1..MaxBlobLen : FlipByte(pos)
    \/ DecryptFile

(***************************************************************************)
(* DocumentProcessor._encrypt_document                                     *)
(***************************************************************************)
\* two process_upload calls for the same user, each in its own thread with
\* its own database session
Uploads == {"up1", "up2"}

\* the processed image handed to _encrypt_document: one chunk, or two
Images == {<<"a">>, [i \in 1..ChunkSize + 1 |-> "b"]}

\* ocr_result.get('text', ''), encoded: no text, a text of one chunk, and
\* a text longer than a chunk
OcrTexts == {<<>>, <<"a", "b">>, [i \in 1..ChunkSize + 1 |-> "a"]}

\* what _encrypt_document has made so far, with the image and the text it
\* was given
NoEnc ==
    [nonce |-> Null, encrypted_image |-> <<>>, encrypted_text |-> <<>>,
     image |-> <<>>, ocr_text |-> <<>>]

UploadInit ==
    /\ file_key = NoKey
    /\ upc = [u \in Uploads |-> "idle"]
    /\ ukey = [u \in Uploads |-> NoKey]
    /\ keygens = 0
    /\ enc = [u \in Uploads |-> NoEnc]
    /\ useals = [u \in Uploads |-> <<>>]
    /\ started = 0

\* secrets.token_bytes(32): a key no earlier call returned
generate_file_key == keygens + 1

\* _encrypt_document, line 260: user = User.query.get(user_id)
EncLoadUser(u) ==
    /\ upc[u] \in {"idle", "encrypted"}
    /\ started < MaxUploads
    /\ started' = started + 1
    /\ ukey' = [ukey EXCEPT ![u] = file_key]
    /\ upc' = [upc EXCEPT ![u] = "user_loaded"]
    /\ enc' = [enc EXCEPT ![u] = NoEnc]
    /\ useals' = [useals EXCEPT ![u] = <<>>]
    /\ UNCHANGED <<file_key, keygens>>
    /\ UNCHANGED notUploadVars

\* _encrypt_document, lines 261-266: the key is generated and committed if
\* the loaded User has none
EncEnsureKey(u) ==
    /\ upc[u] = "user_loaded"
    /\ IF ukey[u] = NoKey
       THEN /\ ukey' = [ukey EXCEPT ![u] = generate_file_key]
            /\ file_key' = generate_file_key
            /\ keygens' = keygens + 1
       ELSE UNCHANGED <<ukey, file_key, keygens>>
    /\ upc' = [upc EXCEPT ![u] = "key_ready"]
    /\ UNCHANGED <<enc, useals, started>>
    /\ UNCHANGED notUploadVars

\* the seals of one stream of an upload
Seals(stream, sealed_pairs) ==
    [i \in 1..Len(sealed_pairs) |->
        [stream |-> stream, key |-> sealed_pairs[i].key,
         nonce |-> sealed_pairs[i].nonce]]

\* _encrypt_document, lines 269-270: encryptor.encrypt_file(image_path,
\* enc_image_path)
EncImage(u) ==
    /\ upc[u] = "key_ready"
    /\ \E img \in Images, nonce \in Nonces :
          LET r == encrypt_file(ukey[u], nonce, img, ChunkSize)
          IN  /\ enc' = [enc EXCEPT ![u].nonce = r.nonce,
                                    ![u].encrypted_image = r.out,
                                    ![u].image = img]
              /\ useals' = [useals EXCEPT ![u] = Seals("image", r.sealed)]
    /\ upc' = [upc EXCEPT ![u] = "image_encrypted"]
    /\ UNCHANGED <<file_key, ukey, keygens, started>>
    /\ UNCHANGED notUploadVars

\* _encrypt_document, lines 273-274: encryptor.aesgcm.encrypt(nonce,
\* ocr_text, None)
EncText(u) ==
    /\ upc[u] = "image_encrypted"
    /\ \E ocr_text \in OcrTexts :
          enc' = [enc EXCEPT ![u].encrypted_text =
                     AESGCM_encrypt(ukey[u], enc[u].nonce, ocr_text),
                                 ![u].ocr_text = ocr_text]
    /\ useals' = [useals EXCEPT ![u] =
                     @ \o Seals("text", <<[key |-> ukey[u],
                                           nonce |-> enc[u].nonce]>>)]
    /\ upc' = [upc EXCEPT ![u] = "encrypted"]
    /\ UNCHANGED <<file_key, ukey, keygens, started>>
    /\ UNCHANGED notUploadVars

\* _save_to_storage, lines 302-309: the document blob is the file
\* encrypt_file wrote, renamed; the text blob is the nonce followed by
\* encrypted_text
DocumentBlob(e) == e.encrypted_image

TextBlob(e) == NonceBytes(e.nonce) \o e.encrypted_text

UploadNext ==
    \/ \E u \in Uploads : EncLoadUser(u)
    \/ \E u \in Uploads : EncEnsureKey(u)
    \/ \E u \in Uploads : EncImage(u)
    \/ \E u \in Uploads : EncText(u)

(***************************************************************************)
(* DocumentProcessor.process_upload                                        *)
(***************************************************************************)
\* how many process_upload calls are made, one after the other, in one
\* behaviour
MaxInvocations == 2

SUPPORTED_FORMATS ==
    {"image/jpeg", "image/png", "image/tiff", "image/bmp", "image/webp",
     "image/heif", "image/heic", "application/pdf"}

\* what _detect_mime_type may return: an image type and the PDF type of
\* the allow-list, and a type outside it
MimeTypes == {"image/png", "application/pdf", "text/plain"}

\* a file of a folder; whole is FALSE for a file whose writer was stopped
\* by an exception
File(path, whole) == [path |-> path, whole |-> whole]

Paths(folder) == {f.path : f \in folder}

\* None, where a path is expected
NoPath == <<>>

\* tempfile.mkstemp of the n-th invocation, and the names derived from it
TempPath(n) == <<n, "upload">>

ProcessedPath(n, mime) ==
    IF mime = "application/pdf" THEN <<n, "upload_page1.png">>
    ELSE <<n, "upload_processed.webp">>

EncPath(processed) == <<processed[1], processed[2] \o ".enc">>

FinalPath(id) == <<id, "doc.enc">>

TextPath(id) == <<id, "doc_ocr.enc">>

\* the filename argument of the n-th invocation
Filename(n) == <<n, "scan">>

NoOcr == [text |-> Null, confidence |-> 0, error |-> Null]

NoOutcome == [kind |-> "none"]

\* user.file_key of the uploading user
UserKey == 1

\* a _run_ocr without its except clauses: the timeout and the exception
\* of the Tesseract run reach process_upload
_run_ocr_Propagates(tesseract) ==
    IF tesseract = "done"
    THEN [raised |-> FALSE,
          result |-> [text |-> "text", confidence |-> 87, error |-> Null]]
    ELSE [raised |-> TRUE, result |-> NoOcr]

\* _run_ocr: what it hands back to process_upload for each way the
\* Tesseract run can end; both except clauses return a degraded result
_run_ocr(tesseract) ==
    IF tesseract = "done"
    THEN [raised |-> FALSE,
          result |-> [text |-> "text", confidence |-> 87, error |-> Null]]
    ELSE IF tesseract = "timeout"
    THEN [raised |-> FALSE,
          result |-> [text |-> "", confidence |-> 0, error |-> "timeout"]]
    ELSE [raised |-> FALSE,
          result |-> [text |-> "", confidence |-> 0, error |-> "str(e)"]]

\* the data dict of the DOCUMENT_UPLOADED event, lines 84-90
UploadedData(id, name, confidence) ==
    [text |-> "{\"document_id\":..,\"patient_id\":..,\"filename\":..,\"size\":..,\"ocr_confidence\":..}",
     size |-> 96, keys |-> {"document_id", "patient_id", "filename", "size",
                            "ocr_confidence"},
     document_id |-> id, filename |-> name, ocr_confidence |-> confidence]

\* the data dict of the PROCESSING_FAILED event, lines 101-104
FailedData(err, name) ==
    [text |-> "{\"error\":..,\"filename\":..}", size |-> 64,
     keys |-> {"error", "filename"}, error |-> err, filename |-> name]

\* log_document_event, on to append: the entry lands after the present
\* tail ("returned"), the write raises with nothing written ("raised"), or
\* raises with part of the text written ("torn")
log_document_event(lines, written, ts, event, user_id, data) ==
    LET e == NewEntry(_get_next_id(lines), ts, "DOCUMENT_" \o event, user_id,
                      data, _get_last_hash(lines))
    IN  IF written = "returned" THEN WriteLine(lines, e)
        ELSE IF written = "torn" THEN WritePartial(lines, e)
        ELSE lines

AppendOutcomes == {"returned", "raised", "torn"}

\* the steps of the try block of process_upload, lines 56-81, by what the
\* artifact is once the step has returned
StageOrder ==
    <<"received", "validated", "converted", "extracted", "encrypted",
      "persisted">>

\* the step has returned, and process_upload goes on to next_pc, or it has
\* raised
Completed(stage, next_pc) ==
    stages' = IF ppc' = next_pc THEN Append(stages, stage) ELSE stages

PipelineInit ==
    /\ ppc = "idle"
    /\ invocations = 0
    /\ temp_dir = {}
    /\ patient_folder = {}
    /\ documents = {}
    /\ temp_path = NoPath
    /\ processed_path = NoPath
    /\ mime_type = Null
    /\ ocr_result = NoOcr
    /\ encrypted_data = Null
    /\ document_id = 0
    /\ error = Null
    /\ appends = <<>>
    /\ outcome = NoOutcome
    /\ stages = <<>>
    /\ ocr_running = {}
    /\ rlimits = "default"
    /\ contents = {}
    /\ doc_rows = {}

\* process_upload is called, lines 49-53
StartUpload ==
    /\ ppc \in {"idle", "returned", "raised"}
    /\ invocations < MaxInvocations
    /\ invocations' = invocations + 1
    /\ ppc' = "save_temp"
    /\ temp_path' = NoPath
    /\ processed_path' = NoPath
    /\ mime_type' = Null
    /\ ocr_result' = NoOcr
    /\ encrypted_data' = Null
    /\ document_id' = 0
    /\ error' = Null
    /\ appends' = <<>>
    /\ outcome' = NoOutcome
    /\ stages' = <<>>
    /\ UNCHANGED <<temp_dir, patient_folder, documents, log, ocr_running, rlimits,
                   contents, doc_rows>>
    /\ UNCHANGED notPipelineVars

\* line 57, _save_temp_file: the upload is written to a new temp file; if
\* the write raises, lines 131-133 unlink the file and raise
SaveTempFile ==
    /\ ppc = "save_temp"
    /\ \E written \in BOOLEAN :
          IF written
          THEN /\ temp_dir' = temp_dir \cup
                              {File(TempPath(invocations), TRUE)}
               /\ temp_path' = TempPath(invocations)
               /\ ppc' = "detect"
               /\ UNCHANGED error
          ELSE /\ error' = "upload could not be saved"
               /\ ppc' = "except"
               /\ UNCHANGED <<temp_dir, temp_path>>
    /\ UNCHANGED <<invocations, patient_folder, documents, processed_path,
                   mime_type, ocr_result, encrypted_data, document_id,
                   appends, outcome, log, ocr_running, rlimits,
                   contents, doc_rows>>
    /\ Completed("received", "detect")
    /\ UNCHANGED notPipelineVars

\* lines 60-62 without the check of line 61: every type goes on
DetectMimeType_NoCheck ==
    /\ ppc = "detect"
    /\ \E m \in MimeTypes : mime_type' = m
    /\ ppc' = "convert"
    /\ UNCHANGED <<invocations, temp_dir, patient_folder, documents,
                   temp_path, processed_path, ocr_result, encrypted_data,
                   document_id, error, appends, outcome, log, ocr_running, rlimits,
                   contents, doc_rows>>
    /\ Completed("validated", "convert")
    /\ UNCHANGED notPipelineVars

\* lines 60-62: the type is detected and checked against the allow-list
DetectMimeType ==
    /\ ppc = "detect"
    /\ \E m \in MimeTypes :
          /\ mime_type' = m
          /\ IF m \in SUPPORTED_FORMATS
             THEN ppc' = "convert" /\ UNCHANGED error
             ELSE ppc' = "except" /\ error' = "Unsupported file type"
    /\ UNCHANGED <<invocations, temp_dir, patient_folder, documents,
                   temp_path, processed_path, ocr_result, encrypted_data,
                   document_id, appends, outcome, log, ocr_running, rlimits,
                   contents, doc_rows>>
    /\ Completed("validated", "convert")
    /\ UNCHANGED notPipelineVars

\* lines 65-68, _process_pdf or _process_image: processed_path is assigned
\* only when the conversion returns; a conversion that raises may have
\* written nothing of its output file, or a part of it
Convert ==
    /\ ppc = "convert"
    /\ LET output_path == ProcessedPath(invocations, mime_type)
       IN  \E saved \in {"whole", "nothing", "part"} :
              IF saved = "whole"
              THEN /\ temp_dir' = temp_dir \cup {File(output_path, TRUE)}
                   /\ processed_path' = output_path
                   /\ ppc' = "ocr"
                   /\ UNCHANGED error
              ELSE /\ temp_dir' = IF saved = "part"
                                  THEN temp_dir \cup
                                       {File(output_path, FALSE)}
                                  ELSE temp_dir
                   /\ error' = "conversion failed"
                   /\ ppc' = "except"
                   /\ UNCHANGED processed_path
    /\ UNCHANGED <<invocations, patient_folder, documents, temp_path,
                   mime_type, ocr_result, encrypted_data, document_id,
                   appends, outcome, log, ocr_running, rlimits,
                   contents, doc_rows>>
    /\ Completed("converted", "ocr")
    /\ UNCHANGED notPipelineVars

\* lines 238-243: run_tesseract is handed to a thread of the default
\* executor and awaited under wait_for.  When it returns or raises in time
\* the thread has ended.  On the timeout wait_for cancels the future it
\* awaits; the thread behind the future is not stopped by that and runs on
cancelled(running, n, tesseract) ==
    IF tesseract = "timeout" THEN running \cup {n} ELSE running

\* lines 210-214: run_tesseract, in its thread, calls resource.setrlimit
\* with the values of get_process_limits before it starts Tesseract;
\* setrlimit sets the limits of the calling process, which is the worker
\* process all its threads are part of, and nothing sets them back
run_tesseract_limits == "ocr"

\* line 71: ocr_result = await self._run_ocr(processed_path)
RunOcr ==
    /\ ppc = "ocr"
    /\ \E tesseract \in {"done", "timeout", "error"} :
          LET r == _run_ocr(tesseract)
          IN  /\ IF r.raised
                 THEN /\ error' = "extraction failed"
                      /\ ppc' = "except"
                      /\ UNCHANGED ocr_result
                 ELSE /\ ocr_result' = r.result
                      /\ ppc' = "encrypt"
                      /\ UNCHANGED error
              /\ ocr_running' = cancelled(ocr_running, invocations, tesseract)
    /\ rlimits' = run_tesseract_limits
    /\ UNCHANGED <<invocations, temp_dir, patient_folder, documents,
                   temp_path, processed_path, mime_type, encrypted_data,
                   document_id, appends, outcome, log, contents, doc_rows>>
    /\ Completed("extracted", "encrypt")
    /\ UNCHANGED notPipelineVars

\* lines 210-236, run_tesseract in its thread: a run that outlived the
\* timeout comes to its end, by itself or by a resource limit
OcrWorkerFinish ==
    /\ \E n \in ocr_running : ocr_running' = ocr_running \ {n}
    /\ UNCHANGED <<ppc, invocations, temp_dir, patient_folder, documents,
                   temp_path, processed_path, mime_type, ocr_result,
                   encrypted_data, document_id, error, appends, outcome,
                   stages, log, rlimits, contents, doc_rows>>
    /\ UNCHANGED notPipelineVars

\* lines 74-76, _encrypt_document: the encrypted image is written to
\* processed_path + '.enc' in the temp folder by encrypt_file, which hands
\* back the nonce it wrote at the head of the file; a failure before the
\* file is opened leaves nothing, a failure of encrypt_file in its loop
\* leaves a part of the file
EncryptDocument ==
    /\ ppc = "encrypt"
    /\ LET enc_image_path == EncPath(processed_path)
       IN  \E saved \in {"whole", "nothing", "part"}, img \in Images,
              nonce \in Nonces :
              LET r == encrypt_file(UserKey, nonce, img, ChunkSize)
              IN  IF saved = "whole"
                  THEN /\ temp_dir' = temp_dir \cup
                                         {File(enc_image_path, TRUE)}
                       /\ contents' = contents \cup
                             {[path |-> enc_image_path, bytes |-> r.out]}
                       /\ encrypted_data' =
                             [encrypted_image_path |-> enc_image_path,
                              nonce |-> r.nonce,
                              ocr_confidence |-> ocr_result.confidence]
                       /\ ppc' = "store"
                       /\ UNCHANGED error
                  ELSE /\ temp_dir' = IF saved = "part"
                                      THEN temp_dir \cup
                                           {File(enc_image_path, FALSE)}
                                      ELSE temp_dir
                       /\ error' = "encryption failed"
                       /\ ppc' = "except"
                       /\ UNCHANGED <<encrypted_data, contents>>
    /\ UNCHANGED <<invocations, patient_folder, documents, temp_path,
                   processed_path, mime_type, ocr_result, document_id,
                   appends, outcome, log, ocr_running, rlimits, doc_rows>>
    /\ Completed("encrypted", "store")
    /\ UNCHANGED notPipelineVars

\* the bytes of the file at a path, <<>> if its bytes are not kept
Content(files, path) ==
    IF \E c \in files : c.path = path
    THEN (CHOOSE c \in files : c.path = path).bytes
    ELSE <<>>

\* os.rename(src, dst) on the bytes kept
Renamed(files, src, dst) ==
    {IF c.path = src THEN [c EXCEPT !.path = dst] ELSE c : c \in files}

\* a row whose file_size leaves out the nonce at the head of the file
DocumentRow_SizeWithoutNonce(id, final_path, text_path, files, nonce) ==
    [id |-> id, file_path |-> final_path, text_path |-> text_path,
     file_size |-> Len(Content(files, final_path)) - NONCE_LEN,
     encryption_nonce |-> nonce]

\* _save_to_storage, lines 311-315: the columns of the row it commits
DocumentRow(id, final_path, text_path, files, nonce) ==
    [id |-> id, file_path |-> final_path, text_path |-> text_path,
     file_size |-> Len(Content(files, final_path)),
     encryption_nonce |-> nonce]

\* lines 79-81, _save_to_storage: flush (line 299), rename (303), the write
\* of the text blob (307-309) and commit (317), any of which may raise
SaveToStorage ==
    /\ ppc = "store"
    /\ LET id == invocations
           enc_file == File(encrypted_data.encrypted_image_path, TRUE)
           moved == Renamed(contents, encrypted_data.encrypted_image_path,
                            FinalPath(id))
       IN  \E raises \in {"nowhere", "flush", "rename", "write", "commit"} :
              /\ IF raises \in {"flush", "rename"}
                 THEN UNCHANGED <<temp_dir, patient_folder, contents>>
                 ELSE /\ temp_dir' = temp_dir \ {enc_file}
                      /\ patient_folder' = patient_folder \cup
                            {File(FinalPath(id), TRUE),
                             File(TextPath(id), raises # "write")}
                      /\ contents' = moved
              /\ IF raises = "nowhere"
                 THEN /\ documents' = documents \cup {id}
                      /\ doc_rows' = doc_rows \cup
                            {DocumentRow(id, FinalPath(id), TextPath(id),
                                         moved, encrypted_data.nonce)}
                      /\ document_id' = id
                      /\ ppc' = "log_uploaded"
                      /\ UNCHANGED error
                 ELSE /\ error' = "storage failed"
                      /\ ppc' = "except"
                      /\ UNCHANGED <<documents, document_id, doc_rows>>
    /\ UNCHANGED <<invocations, temp_path, processed_path, mime_type,
                   ocr_result, encrypted_data, appends, outcome, log,
                   ocr_running, rlimits>>
    /\ Completed("persisted", "log_uploaded")
    /\ UNCHANGED notPipelineVars

\* storage.py, verify_storage_integrity, lines 139-165, for the rows
\* given: a missing file, a missing text blob, a file_size that is not the
\* size of the file
verify_storage_integrity(rows, folder, files) ==
    {[document_id |-> d.id, issue |-> "missing_file"] :
        d \in {x \in rows : x.file_path \notin Paths(folder)}}
    \cup
    {[document_id |-> d.id, issue |-> "missing_ocr"] :
        d \in {x \in rows : x.text_path \notin Paths(folder)}}
    \cup
    {[document_id |-> d.id, issue |-> "size_mismatch"] :
        d \in {x \in rows : /\ x.file_path \in Paths(folder)
                             /\ Len(Content(files, x.file_path))
                                   # x.file_size}}

\* RLIMIT_CPU of get_process_limits, constraints.py line 53: when the CPU
\* time of the process reaches the limit the kernel sends it SIGXCPU and
\* then SIGKILL, and the process ends where it is
LimitReached ==
    /\ rlimits = "ocr"
    /\ ppc \in {"save_temp", "detect", "convert", "ocr", "encrypt", "store",
                "log_uploaded", "except", "finally"}
    /\ ppc' = "killed"
    /\ UNCHANGED <<invocations, temp_dir, patient_folder, documents,
                   temp_path, processed_path, mime_type, ocr_result,
                   encrypted_data, document_id, error, appends, outcome,
                   stages, log, ocr_running, rlimits,
                   contents, doc_rows>>
    /\ UNCHANGED notPipelineVars

\* lines 84-97: the DOCUMENT_UPLOADED event is logged and the result built;
\* an exception of the append is caught by the except clause of line 99
LogUploaded ==
    /\ ppc = "log_uploaded"
    /\ LET data == UploadedData(document_id, Filename(invocations),
                                ocr_result.confidence)
       IN  \E written \in AppendOutcomes, ts \in Timestamps :
              /\ log' = log_document_event(log, written, ts,
                                           "DOCUMENT_UPLOADED", "7", data)
              /\ appends' = Append(appends,
                                   [event |-> "DOCUMENT_UPLOADED",
                                    data |-> data, written |-> written])
              /\ IF written = "returned"
                 THEN /\ outcome' =
                            [kind |-> "return", success |-> TRUE,
                             document_id |-> document_id,
                             ocr_text |-> ocr_result.text,
                             confidence |-> ocr_result.confidence]
                      /\ ppc' = "finally"
                      /\ UNCHANGED error
                 ELSE /\ error' = "audit log write failed"
                      /\ ppc' = "except"
                      /\ UNCHANGED outcome
    /\ UNCHANGED <<invocations, temp_dir, patient_folder, documents,
                   temp_path, processed_path, mime_type, ocr_result,
                   encrypted_data, document_id, stages, ocr_running, rlimits,
                   contents, doc_rows>>
    /\ UNCHANGED notPipelineVars

\* lines 99-105 without the raise of line 105: the event is logged and
\* process_upload returns
HandleException_Swallows ==
    /\ ppc = "except"
    /\ LET data == FailedData(error, Filename(invocations))
       IN  \E written \in AppendOutcomes, ts \in Timestamps :
              /\ log' = log_document_event(log, written, ts,
                                           "PROCESSING_FAILED", "7", data)
              /\ appends' = Append(appends,
                                   [event |-> "PROCESSING_FAILED",
                                    data |-> data, written |-> written])
              /\ outcome' =
                    IF written = "returned" THEN [kind |-> "return"]
                    ELSE [kind |-> "raise", error |-> "audit log write failed"]
    /\ ppc' = "finally"
    /\ UNCHANGED <<invocations, temp_dir, patient_folder, documents,
                   temp_path, processed_path, mime_type, ocr_result,
                   encrypted_data, document_id, error, stages, ocr_running, rlimits,
                   contents, doc_rows>>
    /\ UNCHANGED notPipelineVars

\* lines 99-105: the PROCESSING_FAILED event is logged and the exception
\* raised again; if the append raises, its exception takes the place
HandleException ==
    /\ ppc = "except"
    /\ LET data == FailedData(error, Filename(invocations))
       IN  \E written \in AppendOutcomes, ts \in Timestamps :
              /\ log' = log_document_event(log, written, ts,
                                           "PROCESSING_FAILED", "7", data)
              /\ appends' = Append(appends,
                                   [event |-> "PROCESSING_FAILED",
                                    data |-> data, written |-> written])
              /\ outcome' =
                    [kind |-> "raise",
                     error |-> IF written = "returned" THEN error
                               ELSE "audit log write failed"]
    /\ ppc' = "finally"
    /\ UNCHANGED <<invocations, temp_dir, patient_folder, documents,
                   temp_path, processed_path, mime_type, ocr_result,
                   encrypted_data, document_id, error, stages, ocr_running, rlimits,
                   contents, doc_rows>>
    /\ UNCHANGED notPipelineVars

\* lines 107-111: temp_path and processed_path are unlinked if set and
\* present; then the result is returned or the exception leaves
Cleanup ==
    /\ ppc = "finally"
    /\ temp_dir' = {f \in temp_dir : f.path \notin {temp_path, processed_path}}
    /\ ppc' = IF outcome.kind = "return" THEN "returned" ELSE "raised"
    /\ UNCHANGED <<invocations, patient_folder, documents, temp_path,
                   processed_path, mime_type, ocr_result, encrypted_data,
                   document_id, error, appends, outcome, log, stages,
                   ocr_running, rlimits,
                   contents, doc_rows>>
    /\ UNCHANGED notPipelineVars

PipelineNext ==
    \/ StartUpload
    \/ SaveTempFile
    \/ DetectMimeType
    \/ Convert
    \/ RunOcr
    \/ EncryptDocument
    \/ SaveToStorage
    \/ LogUploaded
    \/ HandleException
    \/ Cleanup
    \/ OcrWorkerFinish
    \/ LimitReached

(***************************************************************************)
(* scripts/emergency_wipe.py: crypto_shred                                 *)
(***************************************************************************)
\* how many backups perform_backup has made before the wipe
MaxBackups == 1

WIPE_PATHS ==
    <<"/etc/psyward/keys", "/mnt/encrypted_data", "/var/log/psyward",
      "/opt/psyward/instance">>

\* the files Path('/etc/psyward/keys').glob('*.key') can yield: the master
\* key of _initialize_encryption_keys and one more key file
KeyFiles == {"master.key", "second.key"}

\* the users whose file_key column may hold a key
Users == {1, 2}

\* the state before the wipe: the master key exists, the volume is mounted
\* and holds the database, the log and key folders exist
ShredInit ==
    /\ spc = "idle"
    /\ key_files \in {[f \in KeyFiles |-> "present"],
                      [f \in KeyFiles |->
                          IF f = "master.key" THEN "present" ELSE "absent"]}
    /\ db_keys \in SUBSET Users
    /\ backup_keys = {}
    /\ volume = [mounted |-> TRUE, header |-> "intact"]
    /\ exists \in {{1, 2, 3, 4}, {1, 2, 3}}
    /\ attempted = {}
    /\ wipe_i = 0
    /\ trigger = "none"
    /\ backup_archives = {}
    /\ usb_backup = {}
    /\ usb_mounted \in BOOLEAN

\* storage.py, perform_backup, lines 106-114: the archive is encrypted
\* under a fresh key into <backup_name>.enc of the backup folder, and the
\* key is written to <backup_name>.key of the same folder; encrypt_file or
\* the write of the key may raise
perform_backup(n, raises) ==
    /\ backup_archives' = backup_archives \cup {n}
    /\ backup_keys' = IF raises = "nowhere" THEN backup_keys \cup {n}
                      ELSE backup_keys

\* perform_backup called by itself
PerformBackup ==
    /\ spc = "idle"
    /\ Cardinality(backup_archives) < MaxBackups
    /\ \E raises \in {"nowhere", "encrypt", "key"} :
          perform_backup(Cardinality(backup_archives) + 1, raises)
    /\ UNCHANGED <<spc, key_files, db_keys, volume, exists, attempted, wipe_i>>
    /\ UNCHANGED trigger
    /\ UNCHANGED <<usb_backup, usb_mounted>>
    /\ UNCHANGED <<ledgerVars, cipherVars, uploadVars, pipelineVars>>

\* a file of /mnt/usb_backup: the archive or the key of the n-th backup
UsbFile(n, suffix) == <<n, suffix>>

\* scripts/backup.py, main, lines 22-40: perform_backup, and if it returned
\* and /mnt/usb_backup exists, backup_file and then key_file are copied
\* there; a copy may raise
BackupMain ==
    /\ spc = "idle"
    /\ Cardinality(backup_archives) < MaxBackups
    /\ LET n == Cardinality(backup_archives) + 1
       IN  \E raises \in {"nowhere", "encrypt", "key"},
              copies \in {"both", "first", "none"} :
              /\ perform_backup(n, raises)
              /\ usb_backup' =
                    IF raises = "nowhere" /\ usb_mounted
                    THEN usb_backup \cup
                         (IF copies = "both"
                          THEN {UsbFile(n, ".enc"), UsbFile(n, ".key")}
                          ELSE IF copies = "first" THEN {UsbFile(n, ".enc")}
                          ELSE {})
                    ELSE usb_backup
    /\ UNCHANGED <<spc, key_files, db_keys, volume, exists, attempted, wipe_i>>
    /\ UNCHANGED trigger
    /\ UNCHANGED usb_mounted
    /\ UNCHANGED <<ledgerVars, cipherVars, uploadVars, pipelineVars>>

\* crypto_shred, lines 36-41: step 1 is entered if the key folder exists;
\* who called it is for the caller to note
CryptoShredStart ==
    /\ spc = "idle"
    /\ spc' = IF 1 \in exists THEN "keys" ELSE "umount"
    /\ attempted' = {"keys"}
    /\ UNCHANGED <<key_files, db_keys, backup_keys, volume, exists, wipe_i>>
    /\ UNCHANGED notShredVars

\* system/physical_security.py, tamper_detected, lines 48-60: the rising
\* edge on the tamper pin calls crypto_shred
TamperDetected ==
    /\ CryptoShredStart
    /\ trigger' = "tamper"

\* the command lines the operator may give emergency_wipe.py, sys.argv[1:]
Argvs == {<<>>, <<"--confirm">>, <<"--force">>, <<"--force", "--confirm">>}

\* a script that calls crypto_shred whatever its arguments
Main_NoConfirmCheck(argv) ==
    /\ CryptoShredStart
    /\ trigger' = IF Len(argv) > 0 /\ argv[1] = "--confirm"
                  THEN "operator" ELSE "refused"

\* emergency_wipe.py, lines 74-81: crypto_shred is called if the first
\* argument is --confirm; otherwise the warning is printed and the script
\* exits with status 1
Main(argv) ==
    IF Len(argv) > 0 /\ argv[1] = "--confirm"
    THEN /\ CryptoShredStart
         /\ trigger' = "operator"
    ELSE /\ spc = "idle"
         /\ trigger # "refused"
         /\ trigger' = "refused"
         /\ UNCHANGED <<spc, key_files, db_keys, backup_keys, volume, exists,
                        attempted, wipe_i>>
         /\ UNCHANGED notShredVars

\* lines 42-43 with secure_delete, lines 25-30, on one key file: it is
\* overwritten and unlinked; open raising leaves it as it was, unlink
\* raising leaves it overwritten, and either exception leaves crypto_shred
ShredKeyFile(f) ==
    /\ spc = "keys"
    /\ key_files[f] = "present"
    /\ f \notin attempted
    /\ attempted' = attempted \cup {f}
    /\ \E raises \in {"nowhere", "open", "unlink"} :
          /\ key_files' = [key_files EXCEPT ![f] =
                              IF raises = "nowhere" THEN "absent"
                              ELSE IF raises = "unlink" THEN "overwritten"
                              ELSE "present"]
          /\ spc' = IF raises = "nowhere" THEN "keys" ELSE "raised"
    /\ UNCHANGED <<db_keys, backup_keys, volume, exists, wipe_i>>
    /\ UNCHANGED trigger
    /\ UNCHANGED notShredVars

\* the loop of line 42 has run out of key files
ShredKeysDone ==
    /\ spc = "keys"
    /\ \A f \in KeyFiles : key_files[f] = "present" => f \in attempted
    /\ spc' = "umount"
    /\ UNCHANGED <<key_files, db_keys, backup_keys, volume, exists,
                   attempted, wipe_i>>
    /\ UNCHANGED trigger
    /\ UNCHANGED notShredVars

\* lines 46-50: umount and luksClose; their failure is passed over
Unmount ==
    /\ spc = "umount"
    /\ attempted' = attempted \cup {"umount"}
    /\ \E done \in BOOLEAN :
          volume' = [volume EXCEPT !.mounted = ~done]
    /\ spc' = "erase"
    /\ UNCHANGED <<key_files, db_keys, backup_keys, exists, wipe_i>>
    /\ UNCHANGED trigger
    /\ UNCHANGED notShredVars

\* lines 53-56: luksErase; its failure is passed over
EraseHeader ==
    /\ spc = "erase"
    /\ attempted' = attempted \cup {"erase"}
    /\ \E done \in BOOLEAN :
          volume' = [volume EXCEPT !.header =
                        IF done THEN "erased" ELSE "intact"]
    /\ spc' = "wipe"
    /\ wipe_i' = 1
    /\ UNCHANGED <<key_files, db_keys, backup_keys, exists>>
    /\ UNCHANGED trigger
    /\ UNCHANGED notShredVars

\* lines 59-63, one turn of the loop: the path is deleted if it exists;
\* an exception of secure_delete leaves crypto_shred.  Deleting the key
\* folder removes the key files left in it, deleting the mounted data
\* folder removes the database with the users' keys.
WipePath ==
    /\ spc = "wipe"
    /\ attempted' = attempted \cup {"wipe"}
    /\ IF wipe_i \in exists
       THEN \E raises \in BOOLEAN :
               IF raises
               THEN /\ spc' = "raised"
                    /\ UNCHANGED <<key_files, db_keys, exists, wipe_i>>
               ELSE /\ exists' = exists \ {wipe_i}
                    /\ key_files' = IF wipe_i = 1
                                    THEN [f \in KeyFiles |-> "absent"]
                                    ELSE key_files
                    /\ db_keys' = IF wipe_i = 2 /\ volume.mounted
                                  THEN {} ELSE db_keys
                    /\ wipe_i' = wipe_i + 1
                    /\ spc' = IF wipe_i = Len(WIPE_PATHS)
                              THEN "journal" ELSE "wipe"
       ELSE /\ wipe_i' = wipe_i + 1
            /\ spc' = IF wipe_i = Len(WIPE_PATHS) THEN "journal" ELSE "wipe"
            /\ UNCHANGED <<key_files, db_keys, exists>>
    /\ UNCHANGED <<backup_keys, volume>>
    /\ UNCHANGED trigger
    /\ UNCHANGED notShredVars

\* lines 66-67: journalctl is run outside any try; a missing command
\* raises FileNotFoundError
ClearJournal ==
    /\ spc = "journal"
    /\ attempted' = attempted \cup {"journal"}
    /\ \E raises \in BOOLEAN : spc' = IF raises THEN "raised" ELSE "shutdown"
    /\ UNCHANGED <<key_files, db_keys, backup_keys, volume, exists, wipe_i>>
    /\ UNCHANGED trigger
    /\ UNCHANGED notShredVars

\* line 72: shutdown, outside any try
Shutdown ==
    /\ spc = "shutdown"
    /\ attempted' = attempted \cup {"shutdown"}
    /\ \E raises \in BOOLEAN : spc' = IF raises THEN "raised" ELSE "done"
    /\ UNCHANGED <<key_files, db_keys, backup_keys, volume, exists, wipe_i>>
    /\ UNCHANGED trigger
    /\ UNCHANGED notShredVars

ShredNext ==
    \/ PerformBackup
    \/ BackupMain
    \/ TamperDetected
    \/ \E argv \in Argvs : Main(argv)
    \/ \E f \in KeyFiles : ShredKeyFile(f)
    \/ ShredKeysDone
    \/ Unmount
    \/ EraseHeader
    \/ WipePath
    \/ ClearJournal
    \/ Shutdown

(***************************************************************************)
(* Specifications                                                          *)
(***************************************************************************)
\* everything but the part a specification is about stands still, in the
\* state before the wipe with one key file, no user key and every folder
ShredIdle ==
    /\ spc = "idle"
    /\ key_files = [f \in KeyFiles |->
                       IF f = "master.key" THEN "present" ELSE "absent"]
    /\ db_keys = {}
    /\ backup_keys = {}
    /\ volume = [mounted |-> TRUE, header |-> "intact"]
    /\ exists = {1, 2, 3, 4}
    /\ attempted = {}
    /\ wipe_i = 0
    /\ trigger = "none"
    /\ backup_archives = {}
    /\ usb_backup = {}
    /\ usb_mounted = FALSE

\* the audit log alone
Init == LedgerInit /\ CipherIdle /\ UploadInit /\ PipelineInit /\ ShredIdle

Spec == Init /\ [][LedgerNext]_vars

\* the audit log, its readers and whoever can change the file
AuditSpec == Init /\ [][AuditNext]_vars

\* the file codec alone
CipherSpecInit ==
    CipherInit /\ LedgerInit /\ UploadInit /\ PipelineInit /\ ShredIdle

CipherSpec == CipherSpecInit /\ [][CipherNext]_vars

RecordSpec == CipherSpecInit /\ [][RecordNext]_vars

\* the encryption stage of concurrent uploads alone
UploadSpecInit ==
    UploadInit /\ LedgerInit /\ CipherIdle /\ PipelineInit /\ ShredIdle

UploadSpec == UploadSpecInit /\ [][UploadNext]_vars

\* process_upload, one call after the other, writing to the audit log
PipelineSpecInit ==
    PipelineInit /\ LedgerInit /\ CipherIdle /\ UploadInit /\ ShredIdle

PipelineSpec == PipelineSpecInit /\ [][PipelineNext]_vars

\* backups, then the emergency wipe
ShredSpecInit ==
    ShredInit /\ LedgerInit /\ CipherIdle /\ UploadInit /\ PipelineInit

ShredSpec == ShredSpecInit /\ [][ShredNext]_vars

\* one upload, with whatever may start the emergency wipe at any moment
FirstUpload == PipelineNext /\ invocations' <= 1

WipeTriggerNext == ShredNext \/ FirstUpload

WipeTriggerSpec == Init /\ [][WipeTriggerNext]_vars

(***************************************************************************)
(* Properties of the audit log.                                            *)
(***************************************************************************)
AllEntries(lines) == \A n \in 1..Len(lines) : lines[n].kind = "entry"

\* every append so far was made by one producer, one call after the other
Sequential == pc["p2"] = "idle"

\* every line fits the tail window
AllShort(lines) == \A n \in 1..Len(lines) : LineBytes(lines[n]) <= TAIL_WINDOW

\* C1: after any sequence of append calls on a freshly initialised log,
\* verify_integrity(0, last_id) returns no discrepancy.  Stated for calls
\* made one after the other, none of which failed.
C1_VerifyCleanAfterAppends ==
    (/\ Sequential /\ AllEntries(log) /\ tamper.kind = "none"
     /\ verified /\ vargs = <<0, LastId(log)>>)
    => issues = <<>>

\* C2: whatever the interleaving of concurrent appends, the entry ids of
\* the log are 0, 1, 2, ... and every entry's previous_hash is the hash of
\* the entry written just before it.  Stated for appends that did not fail
\* and whose lines all fit the tail window.
C2_SingleGlobalSequence ==
    (AllEntries(log) /\ AllShort(log) /\ tamper.kind = "none")
    => /\ \A n \in 1..Len(log) : log[n].e.entry_id = n - 1
       /\ \A n \in 2..Len(log) :
             log[n].e.previous_hash = log[n - 1].e.hash
       /\ \A m, n \in 1..Len(log) :
             m # n => log[m].e.previous_hash # log[n].e.previous_hash

\* C3: when the data of one entry was altered and no hash recomputed,
\* verify_integrity reports exactly one discrepancy: invalid_hash at that
\* entry.  Stated for a log written by appends made one after the other,
\* none of which failed.
C3_TamperedDataExactlyOneInvalidHash ==
    (/\ tamper.kind = "data" /\ Sequential /\ AllEntries(log)
     /\ verified /\ vargs = <<0, NoEnd>>)
    => /\ Len(issues) = 1
       /\ issues[1].issue = "invalid_hash"
       /\ issues[1].entry_id = log[tamper.pos].e.entry_id

\* the successor of the place an entry was deleted from, or of the first
\* of two swapped places
Successor == IF tamper.kind = "delete" THEN tamper.pos ELSE tamper.pos + 1

\* C4: when one entry was deleted, or two entries were swapped,
\* verify_integrity reports broken_chain at the successor of that place.
\* Stated for appends that did not fail.
C4_DeleteOrSwapBreaksChainAtSuccessor ==
    (/\ tamper.kind \in {"delete", "swap"} /\ AllEntries(log)
     /\ Successor <= Len(log)
     /\ verified /\ vargs = <<0, NoEnd>>)
    => \E k \in 1..Len(issues) :
          /\ issues[k].issue = "broken_chain"
          /\ issues[k].entry_id = log[Successor].e.entry_id
          /\ issues[k].actual_previous = log[Successor].e.previous_hash

\* C5: an append that raises leaves the file as it was before the call.
C5_FailedAppendLeavesLogUnchanged ==
    [][\A p \in Producers :
          (pc[p] = "got_id" /\ pc'[p] = "raised") => log' = log]_vars

(***************************************************************************)
(* Properties of the file codec.                                           *)
(***************************************************************************)
\* C6: within one encrypt_file call no two chunks are sealed under the
\* same (key, nonce) pair.
C6_ChunkNoncesDistinct ==
    \A i, j \in 1..Len(sealed) : i # j => sealed[i] # sealed[j]

\* C8: decrypt_file of what encrypt_file wrote, with the same key and
\* chunk size, gives back the plaintext, for files of 0 bytes, 1 byte, one
\* chunk, and several chunks with a partial last one.
C8_RoundTrip ==
    (cstate = "decrypted" /\ flipped = 0)
    => result.status = "returned" /\ result.out = plain

\* a file of several chunks and a partial last one went there and back
C8_Witness ==
    /\ cstate = "decrypted" /\ flipped = 0
    /\ Len(plain) = 2 * ChunkSize + 1
    /\ plain[1] # plain[2]
    /\ result.out = plain

\* the chunk, counted from 0, that holds the altered byte
FlippedChunk == (flipped - NONCE_LEN - 1) \div (ChunkSize + TAG_LEN)

\* C9: with one ciphertext or tag byte of chunk k altered, decrypt_file
\* raises at chunk k: its output holds the chunks before k and nothing
\* else, and AESGCM.decrypt is not called for a chunk after k.
C9_FailsClosedAtAlteredChunk ==
    (cstate = "decrypted" /\ flipped > NONCE_LEN)
    => /\ result.status = "raised"
       /\ result.out = Take(plain, FlippedChunk * ChunkSize)
       /\ result.opens = FlippedChunk + 1

\* a byte of the second of three chunks was altered and decrypt_file raised
C9_Witness ==
    /\ cstate = "decrypted" /\ flipped > NONCE_LEN
    /\ FlippedChunk = 1 /\ Len(plain) = 2 * ChunkSize + 1
    /\ result.status = "raised" /\ Len(result.out) = ChunkSize

(***************************************************************************)
(* Properties of the encryption stage.                                     *)
(***************************************************************************)
\* C7: for one upload, no (key, nonce) pair seals both a chunk of the
\* document and the extracted text.
C7_StreamNoncesDisjoint ==
    \A u \in Uploads : \A i, j \in 1..Len(useals[u]) :
        (useals[u][i].stream = "image" /\ useals[u][j].stream = "text")
        => <<useals[u][i].key, useals[u][i].nonce>>
           # <<useals[u][j].key, useals[u][j].nonce>>

HasKey(u) == upc[u] \in {"key_ready", "image_encrypted", "encrypted"}

\* C10: when uploads of a user without a key run concurrently, one key is
\* generated and stored, and every upload encrypts with that key.
C10_OneKeyForConcurrentFirstUploads ==
    /\ keygens <= 1
    /\ \A u \in Uploads : HasKey(u) => ukey[u] = file_key

(***************************************************************************)
(* Properties of process_upload.                                           *)
(***************************************************************************)
\* process_upload has returned or raised
Ended == ppc \in {"returned", "raised"}

\* the raw upload and the conversion outputs of the n-th invocation
IntermediatePaths(n) ==
    {TempPath(n), ProcessedPath(n, "application/pdf"),
     ProcessedPath(n, "image/png")}

\* the '.enc' outputs of the n-th invocation in the temp folder
TempCiphertextPaths(n) ==
    {EncPath(ProcessedPath(n, "application/pdf")),
     EncPath(ProcessedPath(n, "image/png"))}

\* the whole lines of the log that record the event for the document id
UploadEntries(lines, id) ==
    {n \in 1..Len(lines) :
        /\ lines[n].kind = "entry"
        /\ lines[n].e.event = "DOCUMENT_DOCUMENT_UPLOADED"
        /\ lines[n].e.data.document_id = id}

\* the whole lines of the log that record a failure for the file name
FailedEntries(lines, name) ==
    {n \in 1..Len(lines) :
        /\ lines[n].kind = "entry"
        /\ lines[n].e.event = "DOCUMENT_PROCESSING_FAILED"
        /\ lines[n].e.data.filename = name}

\* C11: when process_upload has returned or raised, whatever the exit
\* path, the temp folder holds neither the raw upload nor a conversion
\* output of that invocation, whole or partly written.
C11_NoIntermediateFileRemains ==
    Ended => Paths(temp_dir) \cap IntermediatePaths(invocations) = {}

\* C12: a process_upload invocation that has ended has made exactly one
\* ledger append, and that append describes its outcome: DOCUMENT_UPLOADED
\* if it returned, PROCESSING_FAILED if it raised.
C12_ExactlyOneOutcomeAppend ==
    Ended =>
        /\ Len(appends) = 1
        /\ appends[1].event = IF outcome.kind = "return"
                              THEN "DOCUMENT_UPLOADED"
                              ELSE "PROCESSING_FAILED"

\* C13: extraction that times out or raises never fails the pipeline: no
\* invocation is on the failure path for an extraction reason, the
\* degraded result has empty text and confidence 0, and an invocation that
\* then returns has persisted the document and returns that text and
\* confidence.
C13_ExtractionFailureDegrades ==
    /\ error # "extraction failed"
    /\ ocr_result.error # Null =>
          /\ ocr_result.text = ""
          /\ ocr_result.confidence = 0
          /\ ppc \notin {"idle", "save_temp", "detect", "convert", "ocr"}
          /\ ppc = "returned" =>
                /\ outcome.success
                /\ outcome.ocr_text = ""
                /\ outcome.confidence = 0
                /\ outcome.document_id \in documents
                /\ FinalPath(outcome.document_id) \in Paths(patient_folder)

\* an invocation whose extraction timed out has returned with the
\* document persisted
C13_Witness ==
    /\ ppc = "returned"
    /\ ocr_result.error = "timeout"
    /\ outcome.confidence = 0
    /\ document_id \in documents

\* C14: when extraction timed out and the document was persisted, the
\* entry appended for the document records the timeout, not only the
\* confidence 0.
C14_TimeoutRecordedInLedger ==
    (Ended /\ ocr_result.error = "timeout" /\ document_id \in documents) =>
        \A n \in UploadEntries(log, document_id) :
            \/ "error" \in log[n].e.data.keys
            \/ "reason" \in log[n].e.data.keys

\* an ended invocation raised, never converted, extracted, encrypted or
\* stored, made one append call, for a failure with the unsupported-type
\* reason, and left no file of its own on disk
UnsupportedRejected ==
    /\ outcome.kind = "raise"
    /\ processed_path = NoPath
    /\ ocr_result = NoOcr
    /\ encrypted_data = Null
    /\ invocations \notin documents
    /\ Len(appends) = 1
    /\ appends[1].event = "PROCESSING_FAILED"
    /\ appends[1].data.error = "Unsupported file type"
    /\ \A f \in temp_dir \cup patient_folder : f.path[1] # invocations

UnsupportedEnded == Ended /\ mime_type \notin SUPPORTED_FORMATS \cup {Null}

C16_NoCiphertextLeftAfterFailure ==
    (Ended /\ error \in {"encryption failed", "storage failed"}) =>
        /\ outcome.kind = "raise"
        /\ Paths(temp_dir) \cap TempCiphertextPaths(invocations) = {}

\* C17: after process_upload has ended, a document it persisted (row
\* committed, ciphertext in the patient folder) has a whole
\* DOCUMENT_UPLOADED entry in the ledger, and a success result is returned
\* only with such an entry.
C17_PersistedImpliesAudited ==
    Ended =>
        /\ (invocations \in documents
            /\ FinalPath(invocations) \in Paths(patient_folder))
              => UploadEntries(log, invocations) # {}
        /\ outcome.kind = "return"
              => UploadEntries(log, invocations) # {}

(***************************************************************************)
(* Properties of crypto_shred.                                             *)
(***************************************************************************)
\* C18: no exception ever leaves crypto_shred, whichever step fails.
C18_ShredNeverRaises == spc # "raised"

\* C19: when crypto_shred has ended, every step was attempted whatever
\* failed before it: key destruction for every key file present, volume
\* detach, header erase, and the deletion of application data and logs.
C19_EveryStepAttempted ==
    spc \in {"done", "raised"} =>
        /\ {"keys", "umount", "erase", "wipe"} \subseteq attempted
        /\ \A f \in KeyFiles : key_files[f] = "present" => f \in attempted
        /\ wipe_i > Len(WIPE_PATHS)

\* C20: once the key-destruction step has completed, no key material is
\* left: no key file in the key folder, no per-user file key, no backup
\* key file.
C20_NoKeyMaterialAfterKeyStep ==
    spc \in {"umount", "erase", "wipe", "journal", "shutdown", "done"} =>
        /\ \A f \in KeyFiles : key_files[f] # "present"
        /\ db_keys = {}
        /\ backup_keys = {}

\* C21: crypto_shred runs only after a tamper-detection event or an
\* operator invocation whose first argument is --confirm; no step of
\* process_upload, failed or not, with its ledger appends, starts it or
\* touches what it destroys; and an invocation without confirmation
\* changes nothing.
C21_WipeOnlyOnTamperOrConfirm ==
    /\ [](spc # "idle" => trigger \in {"tamper", "operator"})
    /\ [][(ppc' # ppc \/ log' # log) => shredVars' = shredVars]_vars
    /\ [][(trigger' = "refused" /\ trigger # "refused") =>
             /\ UNCHANGED <<spc, key_files, db_keys, backup_keys, volume,
                            exists, attempted, wipe_i>>
             /\ UNCHANGED <<pipelineVars, log>>]_vars

\* an upload has failed and the script was run without --confirm: no wipe
C21_Witness ==
    /\ ppc = "raised"
    /\ trigger = "refused"
    /\ spc = "idle"
    /\ \A f \in KeyFiles : key_files[f] # "overwritten"

(***************************************************************************)
(* More properties of the audit log.                                       *)
(***************************************************************************)
\* C22: verify_integrity never raises on a malformed line, be it text that
\* is not JSON, JSON that is not an object, or an object without
\* previous_hash and hash: a full verification returns, and its result
\* holds an invalid-encoding discrepancy with the position of every such
\* line.
C22_VerifyNeverRaisesOnMalformedLine ==
    (verified /\ vargs = <<0, NoEnd>>) =>
        /\ verr = Null
        /\ \A n \in 1..Len(log) :
              log[n].kind # "entry" =>
                 \E k \in 1..Len(issues) :
                    /\ issues[k].issue = "invalid_json"
                    /\ issues[k].line = n

\* the last complete entry before line n
LastEntryBefore(lines, n) ==
    CHOOSE m \in 1..(n - 1) :
        /\ lines[m].kind = "entry"
        /\ \A k \in (m + 1)..(n - 1) : lines[k].kind # "entry"

\* C23: when the last line of the log is a torn write, the next append
\* treats it as a lost tail: the new entry's previous_hash is the hash of
\* the last well-formed entry and its entry_id that entry's id plus one;
\* and verify_integrity reports the torn line.  Stated for appends made
\* one after the other.
C23_TornTailTreatedAsLostTail ==
    (Sequential /\ tamper.kind = "none") =>
        \A n \in 2..Len(log) :
            log[n].kind = "torn_entry" =>
               /\ log[n].e.previous_hash = log[LastEntryBefore(log, n)].e.hash
               /\ log[n].e.entry_id =
                     log[LastEntryBefore(log, n)].e.entry_id + 1
               /\ (verified /\ vargs = <<0, NoEnd>>) =>
                     \E k \in 1..Len(issues) :
                        /\ issues[k].issue = "invalid_json"
                        /\ issues[k].line = n

\* C28: in every state reached by initialisation and appends made one
\* after the other, none of which failed, entry 0 is the genesis record,
\* the entry ids are 0, 1, ..., n in file order, and every entry's
\* previous_hash is the hash of the entry before it.
C28_SequentialChainInvariant ==
    (Sequential /\ AllEntries(log) /\ tamper.kind = "none") =>
        /\ log[1].e.entry_id = 0
        /\ log[1].e.event = "LOG_INITIALIZED"
        /\ log[1].e.previous_hash = ZeroHash
        /\ \A n \in 1..Len(log) : log[n].e.entry_id = n - 1
        /\ \A n \in 2..Len(log) : log[n].e.previous_hash = log[n - 1].e.hash

\* C29: the tail lookup is right whatever the length of the last line:
\* the entry appended after a line longer than the tail window has that
\* line's hash as previous_hash and its id plus one as entry_id.  Stated
\* for appends made one after the other, none of which failed.
C29_TailLookupAnyLength ==
    (Sequential /\ AllEntries(log) /\ tamper.kind = "none") =>
        \A n \in 2..Len(log) :
            LineBytes(log[n - 1]) > TAIL_WINDOW =>
               /\ log[n].e.previous_hash = log[n - 1].e.hash
               /\ log[n].e.entry_id = log[n - 1].e.entry_id + 1
               /\ log[n].e.previous_hash # ZeroHash

\* the text of the file before is the start of the text after: every
\* line but the last is as it was, the last is as it was or, if it was a
\* fragment, has got more text behind the fragment
Extends(before, after) ==
    /\ Len(after) >= Len(before)
    /\ \A n \in 1..(Len(before) - 1) : after[n] = before[n]
    /\ before # <<>> =>
          \/ after[Len(before)] = before[Len(before)]
          \/ /\ before[Len(before)].kind = "torn"
             /\ after[Len(before)].kind = "torn_entry"

Range(s) == {s[i] : i \in 1..Len(s)}

\* s is the start of t
IsPrefix(s, t) == Len(s) <= Len(t) /\ \A i \in 1..Len(s) : s[i] = t[i]

\* the present invocation has left a file of its own in the patient's
\* folder, a document row, or an encrypted file in the temp folder
EncryptedOrPersisted ==
    \/ invocations \in documents
    \/ \E f \in patient_folder : f.path[1] = invocations
    \/ \E f \in temp_dir :
          f.path \in {EncPath(ProcessedPath(invocations, m)) : m \in MimeTypes}

\* C24: an invocation of process_upload is one sequential state machine:
\* the stages are completed one at a time in the order received,
\* validated, converted, extracted, encrypted, persisted, each begun only
\* when the one before has returned; the invocation ends either by
\* returning a result, with every stage completed, or by raising, never
\* both and never neither; and for an artifact that failed validation or
\* conversion nothing is encrypted or persisted.
C24_SequentialStages ==
    /\ [](IsPrefix(stages, StageOrder))
    /\ [][stages' # stages =>
             \/ stages' = <<>> /\ ppc' = "save_temp"
             \/ stages' = Append(stages, StageOrder[Len(stages) + 1])]_vars
    /\ [](Ended =>
             /\ outcome.kind \in {"return", "raise"}
             /\ (ppc = "returned") = (outcome.kind = "return")
             /\ (ppc = "raised") = (outcome.kind = "raise")
             /\ outcome.kind = "return" => stages = StageOrder)
    /\ []("validated" \in Range(stages) => mime_type \in SUPPORTED_FORMATS)
    /\ []((invocations > 0 /\ "converted" \notin Range(stages)) =>
             ~EncryptedOrPersisted)

\* a first invocation went through every stage and returned, and the
\* second failed in conversion and raised
C24_Witness ==
    /\ invocations = 2
    /\ documents = {1}
    /\ ppc = "raised"
    /\ error = "conversion failed"
    /\ stages = <<"received", "validated">>

\* C25: when the extraction timeout has fired, the extraction unit of
\* work is cancelled: it is not running, and so not reading the converted
\* file, while process_upload encrypts, stores, logs, deletes the temporary
\* files, or has returned or raised.
C25_TimedOutExtractionNotRunning ==
    (/\ ppc \in {"encrypt", "store", "log_uploaded", "except", "finally",
                 "returned", "raised"}
     /\ ocr_result.error = "timeout") =>
        invocations \notin ocr_running

\* C26: no encryption key is written in plaintext to the place where the
\* ciphertext it protects is kept: the key of a backup is not a file of
\* the backup folder that holds the encrypted archive of that backup, nor
\* of the external copy that holds it.
C26_KeyNeverBesideCiphertext ==
    /\ \A n \in backup_keys : n \notin backup_archives
    /\ \A n \in 1..MaxBackups :
          ~(UsbFile(n, ".key") \in usb_backup /\ UsbFile(n, ".enc") \in usb_backup)

\* C27: both blobs the pipeline persists for a document, the document
\* blob and the extracted-text blob, are in the one format decrypt_file
\* reads: with the key they were sealed under and the default chunk size
\* decrypt_file returns, and gives back the image and the text, whatever
\* their lengths.
C27_PersistedBlobsDecrypt ==
    \A u \in Uploads :
        upc[u] = "encrypted" =>
            LET image == decrypt_file(ukey[u], DocumentBlob(enc[u]), ChunkSize)
                text == decrypt_file(ukey[u], TextBlob(enc[u]), ChunkSize)
            IN  /\ image.status = "returned"
                /\ image.out = enc[u].image
                /\ text.status = "returned"
                /\ text.out = enc[u].ocr_text

(***************************************************************************)
(* Properties of the audit log and its readers.                            *)
(***************************************************************************)
\* C31: on a log nobody altered, written by appends made one after the
\* other with every line inside the tail window, and for any range
\* 0 <= start_id <= end_id <= last id, verify_integrity(start_id, end_id)
\* returns no discrepancy and examines exactly the entries whose ids are
\* in the range; start_id > 0 and end_id = 0 included.
C31_RangeVerifyExact ==
    (/\ verified /\ vargs[2] # NoEnd
     /\ tamper.kind = "none" /\ Sequential
     /\ AllEntries(log) /\ AllShort(log)) =>
        /\ verr = Null
        /\ issues = <<>>
        /\ ExaminedFrom(log, 1, vargs[1], vargs[2]) =
              {n \in 1..Len(log) : log[n].e.entry_id \in vargs[1]..vargs[2]}

\* C32: when one persisted field of an entry has been altered and the
\* hashes not recomputed, ip_address and user_agent being such fields,
\* verify_integrity returns a discrepancy that names that entry.
C32_AnyFieldAlterationReported ==
    (verified /\ vargs = <<0, NoEnd>> /\ tamper.kind \in EntryFields) =>
        /\ verr = Null
        /\ \E k \in 1..Len(issues) :
              /\ "entry_id" \in DOMAIN issues[k]
              /\ issues[k].entry_id = log[tamper.pos].e.entry_id

\* C33: when the last entry, or any run of entries at the end, has been
\* removed from the log, verify_integrity returns a discrepancy.
C33_TruncationReported ==
    (verified /\ vargs = <<0, NoEnd>> /\ tamper.kind = "truncate") =>
        issues # <<>>

\* C39: a verify_integrity that runs while an append is writing, on a log
\* nobody altered, returns no discrepancy: the entry being written is
\* seen whole or not at all.
C39_VerifyDuringAppendClean ==
    (/\ verified /\ vargs = <<0, NoEnd>> /\ tamper.kind = "none"
     /\ \E p \in Producers : pc[p] = "writing"
     /\ \A n \in 1..Len(log) : log[n].kind \in {"entry", "writing"}) =>
        /\ verr = Null
        /\ issues = <<>>

\* C34: decrypt_file never returns with an output that differs from the
\* original: when whole records of a valid encrypted file have been put in
\* another order, copied or removed, the last ones included, decrypt_file
\* raises.
C34_RearrangedRecordsRejected ==
    cstate = "decrypted" =>
        /\ result.status = "returned" => result.out = plain
        /\ rearranged # "none" => result.status = "raised"

(***************************************************************************)
(* Properties of the persistence step and of what the ledger says of it.   *)
(***************************************************************************)
\* C35: when process_upload has raised, final storage is as that
\* invocation found it: the patient's folder holds no doc_<id>.enc and no
\* doc_<id>_ocr.enc it made, and no document row of it is committed,
\* whichever of flush, rename, write of the text blob and commit failed.
C35_FailedLeavesFinalStorageUnchanged ==
    ppc = "raised" =>
        /\ invocations \notin documents
        /\ Paths(patient_folder)
              \cap {FinalPath(invocations), TextPath(invocations)} = {}

\* C36: what the ledger says of an invocation is what became of its
\* artifact: a PROCESSING_FAILED entry is in the log only for an
\* invocation no document of which is committed, a DOCUMENT_UPLOADED entry
\* only for one whose document is committed with its ciphertext stored.
C36_LedgerAgreesWithTerminalState ==
    \A n \in 1..invocations :
        /\ FailedEntries(log, Filename(n)) # {} => n \notin documents
        /\ UploadEntries(log, n) # {} =>
              /\ n \in documents
              /\ FinalPath(n) \in Paths(patient_folder)

\* C37: the memory and CPU-time limits set for extraction are limits of
\* the extraction unit alone: outside the extraction step the process that
\* runs process_upload is under no limit of them, and reaching a limit
\* never ends that process before it has returned or raised.
C37_LimitsOnExtractionOnly ==
    /\ ppc # "killed"
    /\ ppc # "ocr" => rlimits = "default"

\* C38: once process_upload has returned success, the row committed for
\* the document agrees with storage: file_path and text_path name files of
\* the patient's folder, file_size is the size of the ciphertext at
\* file_path, encryption_nonce is its first 12 bytes, and
\* verify_storage_integrity has no issue for the document.
C38_RowConsistentWithStorage ==
    (ppc = "returned" /\ outcome.kind = "return") =>
        /\ Cardinality({d \in doc_rows : d.id = outcome.document_id}) = 1
        /\ \A d \in doc_rows :
              d.id = outcome.document_id =>
                 /\ d.file_path \in Paths(patient_folder)
                 /\ d.text_path \in Paths(patient_folder)
                 /\ File(d.file_path, TRUE) \in patient_folder
                 /\ File(d.text_path, TRUE) \in patient_folder
                 /\ d.file_size = Len(Content(contents, d.file_path))
                 /\ d.file_size > NONCE_LEN
                 /\ NonceBytes(d.encryption_nonce) =
                       Take(Content(contents, d.file_path), NONCE_LEN)
        /\ \A i \in verify_storage_integrity(doc_rows, patient_folder,
                                             contents) :
              i.document_id # outcome.document_id

\* the second of two uploads has returned, the two encrypted under
\* different nonces and of different sizes
C38_Witness ==
    /\ ppc = "returned" /\ invocations = 2
    /\ Cardinality(doc_rows) = 2
    /\ \E d1, d2 \in doc_rows :
          /\ d1.encryption_nonce # d2.encryption_nonce
          /\ d1.file_size # d2.file_size

\* no key file, per-user file key or backup key file is left
KeyMaterialDestroyed ==
    /\ \A f \in KeyFiles : key_files[f] = "absent"
    /\ db_keys = {}
    /\ backup_keys = {}

\* C40: in crypto_shred a key file is removed only by the secure_delete of
\* the key step, which has overwritten it in its full length before the
\* unlink, and when volume detach, header erase or the deletion of
\* application data and logs begins, the destruction of key material is
\* complete: no key file is left, overwritten or not, nor a per-user file
\* key, nor a backup key file.
C40_KeysDestroyedBeforeLaterSteps ==
    /\ [][\A f \in KeyFiles :
             (key_files[f] # "absent" /\ key_files'[f] = "absent") =>
                 spc = "keys" /\ f \in attempted']_vars
    /\ [][(attempted' \ attempted) \cap {"umount", "erase", "wipe"} # {} =>
             KeyMaterialDestroyed]_vars

====
